---- MODULE Spec2Model ----
(***************************************************************************)
(* Model of meilisearch-lib/src/index/search.rs: the string formatter      *)
(* (Formatter::format_string: highlight and crop) and the match-offset     *)
(* computation (compute_value_matches) applied to one string leaf.         *)
(*                                                                         *)
(* A string is a sequence of bytes.  "L" is the lead byte of a two-byte    *)
(* character and "c" its continuation byte; every other byte is a          *)
(* one-byte character.  The analyzer (external) turns the string into      *)
(* (source slice, token) pairs covering it exactly; a token is identified  *)
(* here by its index in Lexicon, and a pair of the stream by its position. *)
(*                                                                         *)
(* The second part models Index::perform_search: the pagination clamp, the *)
(* filter and sort parsing, the FormatPlan (compute_formatted_options) and *)
(* the handling of one hit (make_document, compute_matches, format_fields, *)
(* insert_geo_distance), under the specifications SpecQuery, SpecPlan,    *)
(* SpecHit and SpecNested, which differ in the queries and the documents   *)
(* they start from.  SpecValue is one call of Formatter::format_value on   *)
(* a value that may hold arrays and objects.                               *)
(***************************************************************************)
EXTENDS Integers, Sequences, FiniteSets, TLC

\* ---------------------------------------------------------------- bounds
MaxLen == 4      \* tokens in one analyzed string
MaxCrop == 3     \* largest crop length of FormatOptions
MaxK == 4        \* largest byte length a matcher reports

\* ------------------------------------------------------ program constants
None == -1                              \* Option::None of an Option<usize>
DEFAULT_CROP_MARKER == <<"...">>
DEFAULT_HIGHLIGHT_PRE_TAG == <<"<em>">>
DEFAULT_HIGHLIGHT_POST_TAG == <<"</em>">>

\* The (word, token) pairs the analyzer can yield: kind and source slice.
Lexicon ==
    << [kind |-> "word", word |-> <<"L", "c", "a">>],
       [kind |-> "word", word |-> <<"b", "d">>],
       [kind |-> "separator", word |-> <<"s">>] >>

TokenIds == 1..Len(Lexicon)

\* Token::is_word
is_word(t) == Lexicon[t].kind = "word"

\* Token::is_separator().is_none()
is_separator_none(t) == Lexicon[t].kind # "separator"

\* the &str of a pair
word_of(t) == Lexicon[t].word

\* The answers a Matcher can give for a token: None or Some(k).
MatcherAnswers(t) == IF t = 1 THEN {None} \cup (0..MaxK) ELSE {None, 1}

Matchers == { m \in [TokenIds -> {None} \cup (0..MaxK)] :
                 \A t \in TokenIds : m[t] \in MatcherAnswers(t) }

RECURSIVE SeqsUpTo(_, _)
SeqsUpTo(S, n) ==
    IF n = 0 THEN {<<>>}
    ELSE LET shorter == SeqsUpTo(S, n - 1)
         IN shorter \cup { Append(s, x) : s \in { q \in shorter : Len(q) = n - 1 }, x \in S }

CropOptions == {None} \cup (0..MaxCrop)

VARIABLES
    tokens,             \* analyzed.reconstruct(): the token ids of the string, in order
    matcher,            \* the Matcher: token id -> None or Some(k)
    highlight,          \* format_options.highlight
    crop,               \* format_options.crop
    pc,                 \* position in compute_value_matches / format_string
    start,              \* compute_value_matches: running byte cursor
    scanned,            \* compute_value_matches: pairs of the loop already visited
    infos,              \* compute_value_matches: the MatchInfo list
    pos,                \* format_string: pairs already pulled from `tokens`
    buffer,             \* format_string: positions buffered before the first match
    crop_marker_before, \* format_string: head crop marker flag
    interval,           \* format_string: positions selected for output (tokens_interval)
    folded,             \* format_string: pairs of the interval already folded
    out,                \* format_string: the output string
    consulted,          \* positions of the pairs handed to Matcher::matches so far
    query,              \* perform_search: the SearchQuery
    index,              \* perform_search: the index (displayed fields, stored document)
    spc,                \* perform_search: position in the function
    search,             \* perform_search: the milli search being built and run
    displayed_ids,      \* perform_search: displayed_ids
    to_retrieve_ids,    \* perform_search: to_retrieve_ids
    formatted_options,  \* perform_search: the FormatPlan, FieldId -> FormatOptions
    document,           \* perform_search: document of the current hit
    matches_info,       \* perform_search: matches_info of the current hit
    formatted,          \* perform_search: formatted of the current hit
    hits,               \* perform_search: documents, the hits pushed so far
    result,             \* perform_search: the returned Result<SearchResult>
    call_value,         \* format_value: the argument `value`
    call_options,       \* format_value: the argument `format_options`
    vpc,                \* format_value: position of the call
    formatted_value     \* format_value: the returned value

search_vars == << query, index, spc, search, displayed_ids, to_retrieve_ids,
                  formatted_options, document, matches_info, formatted, hits, result >>

vars == << tokens, matcher, highlight, crop, pc, start, scanned, infos, pos,
           buffer, crop_marker_before, interval, folded, out, consulted, search_vars,
           call_value, call_options, vpc, formatted_value >>

inputs == << tokens, matcher, highlight, crop >>
value_vars == << call_value, call_options, vpc, formatted_value >>
cvm_vars == << start, scanned, infos >>
fmt_vars == << pos, buffer, crop_marker_before, interval, folded, out >>

\* perform_search has not been entered
SearchIdle ==
    /\ query = <<>> /\ index = <<>> /\ spc = "idle" /\ search = <<>>
    /\ displayed_ids = {} /\ to_retrieve_ids = {} /\ formatted_options = <<>>
    /\ document = <<>> /\ matches_info = <<>> /\ formatted = <<>>
    /\ hits = <<>> /\ result = <<>>

\* format_value has not been called
ValueIdle ==
    /\ call_value = <<>> /\ call_options = <<>> /\ vpc = "idle" /\ formatted_value = <<>>

\* ------------------------------------------------------------ str helpers
\* a byte that continues a multi-byte character
IsContinuation(b) == b = "c"

\* str::is_char_boundary
is_char_boundary(w, k) ==
    \/ k = 0
    \/ k = Len(w)
    \/ k < Len(w) /\ ~IsContinuation(w[k + 1])

\* str::get(..k): Some(prefix) or None
get_to(w, k) ==
    IF k <= Len(w) /\ is_char_boundary(w, k)
    THEN [some |-> TRUE, v |-> SubSeq(w, 1, k)]
    ELSE [some |-> FALSE, v |-> <<>>]

\* str::get(k..): Some(suffix) or None
get_from(w, k) ==
    IF k <= Len(w) /\ is_char_boundary(w, k)
    THEN [some |-> TRUE, v |-> SubSeq(w, k + 1, Len(w))]
    ELSE [some |-> FALSE, v |-> <<>>]

\* usize::saturating_sub
saturating_sub(a, b) == IF a > b THEN a - b ELSE 0

\* the source string: the slices of all pairs, concatenated
RECURSIVE Source(_)
Source(toks) ==
    IF toks = <<>> THEN <<>> ELSE word_of(Head(toks)) \o Source(Tail(toks))

\* ------------------------------------------------- compute_value_matches
\* one iteration of `for (word, token) in analyzed.reconstruct()`:
\* the MatchInfo pushed for the pair at position i, if any
match_info_push(list, t, m, cursor) ==
    IF is_word(t) /\ m[t] # None
    THEN Append(list, [start |-> cursor, length |-> m[t]])
    ELSE list

\* `start += word.len()`
advance_start(cursor, t) == cursor + Len(word_of(t))

\* ------------------------------------------------------- format_string
\* number of pairs of a list of positions, separators included
word_count_with_separators(toks, positions) == Len(positions)

\* number of pairs of a list of positions that are not separators
word_count(toks, positions) ==
    Cardinality({ i \in 1..Len(positions) : is_separator_none(toks[positions[i]]) })

\* `while let Some(..) = tokens.next_if(|(_, token)| matcher.matches(token).is_none())`:
\* the number of pairs pulled into the buffer, starting after p pulled pairs
RECURSIVE next_if_loop(_, _, _)
next_if_loop(toks, m, p) ==
    IF p < Len(toks) /\ m[toks[p + 1]] = None
    THEN next_if_loop(toks, m, p + 1)
    ELSE p

\* the pairs the predicate of next_if is called on, when the loop moves the
\* iterator from p to q pulled pairs: the buffered ones and the peeked pair
\* that stops the loop, if there is one
matcher_calls_of_scan(toks, p, q) ==
    (p + 1)..(IF q < Len(toks) THEN q + 1 ELSE q)

\* `total_count > crop_len_before`
head_is_cropped(total_count, crop_len_before) == total_count > crop_len_before

\* `buffer.into_iter().skip_while(..)`: the positions kept; underflow is
\* the usize subtraction `total_count -= 1` going below zero
RECURSIVE skip_while(_, _, _, _)
skip_while(toks, buf, total_count, crop_len_before) ==
    IF buf = <<>> THEN [rest |-> <<>>, underflow |-> FALSE]
    ELSE LET dec == IF is_separator_none(toks[Head(buf)])
                    THEN total_count - 1 ELSE total_count
         IN IF dec < 0 THEN [rest |-> <<>>, underflow |-> TRUE]
            ELSE IF dec >= crop_len_before
                 THEN skip_while(toks, Tail(buf), dec, crop_len_before)
                 ELSE [rest |-> buf, underflow |-> FALSE]

\* the budget after the match, the match token itself not accounted for
crop_len_after_no_match_token(crop_len, crop_len_before, total_count, marker_before) ==
    IF marker_before
    THEN saturating_sub(crop_len, crop_len_before)
    ELSE saturating_sub(crop_len, total_count)

\* the rebalanced word budget after the match
crop_len_after_of(crop_len, crop_len_before, total_count, marker_before) ==
    IF marker_before
    THEN saturating_sub(crop_len, crop_len_before + 1)
    ELSE saturating_sub(crop_len, total_count + 1)

\* `tokens.take_while(..)` after the match, from p pulled pairs on: the
\* positions taken and the pairs pulled from `tokens` (take_while pulls and
\* drops the first pair its predicate rejects)
RECURSIVE after_iter(_, _, _, _)
after_iter(toks, p, taken_after, crop_len_after) ==
    IF p >= Len(toks) THEN [items |-> <<>>, pulled |-> p]
    ELSE IF taken_after < crop_len_after
         THEN LET r == after_iter(toks, p + 1,
                          IF is_separator_none(toks[p + 1])
                          THEN taken_after + 1 ELSE taken_after,
                          crop_len_after)
              IN [items |-> <<p + 1>> \o r.items, pulled |-> r.pulled]
         ELSE [items |-> <<>>, pulled |-> p + 1]

\* the chain without the match token
chain_without_match(before, m_pos, after) == before \o after

\* `before_iter.chain(Some(token)).chain(after_iter)`
chain_interval(before, m_pos, after) == before \o <<m_pos>> \o after

\* no match: `tokens.by_ref().take_while(..)` over the buffer: the
\* positions taken and what is left in the buffer iterator
RECURSIVE no_match_take(_, _, _, _)
no_match_take(toks, buf, count, crop_len) ==
    IF buf = <<>> THEN [items |-> <<>>, rest |-> <<>>]
    ELSE IF count < crop_len
         THEN LET r == no_match_take(toks, Tail(buf),
                          IF is_separator_none(toks[Head(buf)])
                          THEN count + 1 ELSE count,
                          crop_len)
              IN [items |-> <<Head(buf)>> \o r.items, rest |-> r.rest]
         ELSE [items |-> <<>>, rest |-> Tail(buf)]

\* `.map(|(word, _)| word).collect()`
RECURSIVE collect_words(_, _)
collect_words(toks, positions) ==
    IF positions = <<>> THEN <<>>
    ELSE word_of(toks[Head(positions)]) \o collect_words(toks, Tail(positions))

\* always the whole word between the tags
highlight_word_whole(w, length) ==
    DEFAULT_HIGHLIGHT_PRE_TAG \o w \o DEFAULT_HIGHLIGHT_POST_TAG

\* the split at byte `length`, with no character-boundary check
highlight_word_unchecked(w, length) ==
    LET k == IF length < Len(w) THEN length ELSE Len(w)
    IN DEFAULT_HIGHLIGHT_PRE_TAG \o SubSeq(w, 1, k)
          \o DEFAULT_HIGHLIGHT_POST_TAG \o SubSeq(w, k + 1, Len(w))

\* the highlighted form of a matched word
highlight_word(w, length) ==
    LET head == get_to(w, length)
        tail == get_from(w, length)
    IN IF head.some /\ tail.some
       THEN DEFAULT_HIGHLIGHT_PRE_TAG \o head.v \o DEFAULT_HIGHLIGHT_POST_TAG \o tail.v
       ELSE DEFAULT_HIGHLIGHT_PRE_TAG \o w \o DEFAULT_HIGHLIGHT_POST_TAG

\* the closure with a missing answer of the matcher read as Some(0)
fold_push_unwrap_or_default(t, hl, m) ==
    IF hl /\ is_word(t)
    THEN DEFAULT_HIGHLIGHT_PRE_TAG \o DEFAULT_HIGHLIGHT_POST_TAG \o word_of(t)
    ELSE word_of(t)

\* the closure of `tokens_interval.fold(..)`: what one pair adds to out
fold_push(t, hl, m) ==
    IF hl /\ is_word(t) /\ m[t] # None
    THEN highlight_word(word_of(t), m[t])
    ELSE word_of(t)

\* the positions 1..n as a sequence
Positions(n) == [i \in 1..n |-> i]

\* --------------------------------------------------------------- machine
Init ==
    /\ tokens \in SeqsUpTo(TokenIds, MaxLen)
    /\ matcher \in Matchers
    /\ highlight \in BOOLEAN
    /\ crop \in CropOptions
    /\ pc = "matches"
    /\ start = 0
    /\ scanned = 0
    /\ infos = <<>>
    /\ pos = 0
    /\ buffer = <<>>
    /\ crop_marker_before = FALSE
    /\ interval = <<>>
    /\ folded = 0
    /\ out = <<>>
    /\ consulted = {}
    /\ SearchIdle /\ ValueIdle

\* compute_value_matches, Value::String: one iteration of the loop
ComputeValueMatchesStep ==
    /\ pc = "matches"
    /\ scanned < Len(tokens)
    /\ LET t == tokens[scanned + 1]
       IN /\ infos' = match_info_push(infos, t, matcher, start)
          /\ start' = advance_start(start, t)
          /\ consulted' = IF is_word(t) THEN consulted \cup {scanned + 1} ELSE consulted
    /\ scanned' = scanned + 1
    /\ UNCHANGED << inputs, pc, fmt_vars, search_vars, value_vars >>

\* compute_value_matches returns; format_string is entered
ComputeValueMatchesReturn ==
    /\ pc = "matches"
    /\ scanned = Len(tokens)
    /\ pc' = "format"
    /\ UNCHANGED << inputs, cvm_vars, fmt_vars, consulted, search_vars, value_vars >>

\* format_string, `_ => Box::new(tokens.by_ref())`: crop is None or Some(0)
FormatNoCrop ==
    /\ pc = "format"
    /\ ~(crop # None /\ crop > 0)
    /\ interval' = Positions(Len(tokens))
    /\ pos' = Len(tokens)          \* the fold drains `tokens`
    /\ out' = <<>>
    /\ pc' = "fold"
    /\ UNCHANGED << inputs, cvm_vars, buffer, crop_marker_before, folded, consulted, search_vars, value_vars >>

\* format_string, `Some(crop_len) if crop_len > 0`: buffer the pairs before the first match
FormatCropScan ==
    /\ pc = "format"
    /\ crop # None /\ crop > 0
    /\ pos' = next_if_loop(tokens, matcher, pos)
    /\ buffer' = Positions(pos')
    /\ pc' = "peeked"
    /\ consulted' = consulted \cup matcher_calls_of_scan(tokens, pos, pos')
    /\ UNCHANGED << inputs, cvm_vars, crop_marker_before, interval, folded, out, search_vars, value_vars >>

\* `match tokens.next() { Some(token) => ..`: a match exists, select the interval
FormatCropMatch ==
    /\ pc = "peeked"
    /\ pos < Len(tokens)
    /\ LET m_pos == pos + 1
           total_count == word_count(tokens, buffer)
           crop_len_before == crop \div 2
           marker == head_is_cropped(total_count, crop_len_before)
           before == skip_while(tokens, buffer, total_count, crop_len_before)
           crop_len_after == crop_len_after_of(crop, crop_len_before, total_count, marker)
           after == after_iter(tokens, m_pos, 0, crop_len_after)
       IN IF before.underflow
          THEN /\ pc' = "panic"
               /\ UNCHANGED fmt_vars
          ELSE /\ crop_marker_before' = marker
               /\ interval' = chain_interval(before.rest, m_pos, after.items)
               /\ pos' = after.pulled
               /\ out' = IF marker THEN DEFAULT_CROP_MARKER ELSE <<>>
               /\ pc' = "fold"
               /\ UNCHANGED << buffer, folded >>
    /\ UNCHANGED << inputs, cvm_vars, consulted, search_vars, value_vars >>

\* `None => ..`: no pair of the string matches; the cropped prefix is returned
FormatCropNoMatch ==
    /\ pc = "peeked"
    /\ pos = Len(tokens)
    /\ LET taken == no_match_take(tokens, buffer, 0, crop)
       IN /\ interval' = taken.items
          /\ folded' = Len(taken.items)
          /\ out' = collect_words(tokens, taken.items)
                       \o (IF taken.rest # <<>> THEN DEFAULT_CROP_MARKER ELSE <<>>)
    /\ pc' = "done"
    /\ UNCHANGED << inputs, cvm_vars, pos, buffer, crop_marker_before, consulted, search_vars, value_vars >>

\* one step of `tokens_interval.fold(out, ..)`
FormatFoldStep ==
    /\ pc = "fold"
    /\ folded < Len(interval)
    /\ out' = out \o fold_push(tokens[interval[folded + 1]], highlight, matcher)
    /\ folded' = folded + 1
    /\ consulted' = IF highlight /\ is_word(tokens[interval[folded + 1]])
                    THEN consulted \cup {interval[folded + 1]} ELSE consulted
    /\ UNCHANGED << inputs, cvm_vars, pc, pos, buffer, crop_marker_before, interval, search_vars, value_vars >>

\* after the fold: `if tokens.next().is_some() { out.push_str(&self.crop_marker) }`
FormatTail ==
    /\ pc = "fold"
    /\ folded = Len(interval)
    /\ out' = IF pos < Len(tokens) THEN out \o DEFAULT_CROP_MARKER ELSE out
    /\ pc' = "done"
    /\ UNCHANGED << inputs, cvm_vars, pos, buffer, crop_marker_before, interval, folded,
                    consulted, search_vars, value_vars >>

Next ==
    \/ ComputeValueMatchesStep
    \/ ComputeValueMatchesReturn
    \/ FormatNoCrop
    \/ FormatCropScan
    \/ FormatCropMatch
    \/ FormatCropNoMatch
    \/ FormatFoldStep
    \/ FormatTail

Spec == Init /\ [][Next]_vars

TypeOK ==
    /\ pc \in {"matches", "format", "peeked", "fold", "done", "panic"}
    /\ scanned \in 0..Len(tokens)
    /\ pos \in 0..Len(tokens)
    /\ folded \in 0..Len(interval)

\* ------------------------------------------------------------- helpers
PRE == DEFAULT_HIGHLIGHT_PRE_TAG
POST == DEFAULT_HIGHLIGHT_POST_TAG
MARK == DEFAULT_CROP_MARKER

NotMarkup(b) == b \notin {PRE[1], POST[1], MARK[1]}

\* s without tags and crop markers
StripMarkup(s) == SelectSeq(s, NotMarkup)

CountOf(s, b) == Cardinality({ i \in 1..Len(s) : s[i] = b })

EndsWithMarker(s) == Len(s) > 0 /\ s[Len(s)] = MARK[1]

StartsWithMarker(s) == Len(s) > 0 /\ s[1] = MARK[1]

\* every lead byte is followed by its continuation byte and conversely
ValidUtf8(s) ==
    \A i \in 1..Len(s) :
        /\ s[i] = "L" => (i < Len(s) /\ s[i + 1] = "c")
        /\ s[i] = "c" => (i > 1 /\ s[i - 1] = "L")

\* the matcher returns None for every token of the string
NoMatch == \A i \in 1..Len(tokens) : matcher[tokens[i]] = None

\* position of the first token of the string the matcher answers Some for
FirstMatch == CHOOSE i \in 1..Len(tokens) :
                 /\ matcher[tokens[i]] # None
                 /\ \A j \in 1..(i - 1) : matcher[tokens[j]] = None

WordsIn(lo, hi) == Cardinality({ i \in lo..hi : Lexicon[tokens[i]].kind = "word" })

Cropping == crop # None /\ crop > 0

\* k is a character boundary strictly inside w
StrictlyInside(w, k) == k > 0 /\ k < Len(w) /\ ~IsContinuation(w[k + 1])

\* strictly increasing run of consecutive positions
Contiguous(positions) ==
    \A i \in 1..(Len(positions) - 1) : positions[i + 1] = positions[i] + 1

\* byte offset of the token at position i in the source string
Offset(i) == Len(Source(SubSeq(tokens, 1, i - 1)))

IsMatchedWord(i) == Lexicon[tokens[i]].kind = "word" /\ matcher[tokens[i]] # None

\* the matched word positions among the first n, in scan order
MatchedWords(n) == SelectSeq(Positions(n), IsMatchedWord)

\* ---------------------------------------------------------------- claims

\* C1: with highlight enabled, a word token whose matcher result Some(k) is a
\* character boundary strictly inside its slice is emitted as
\* pre_tag + word[0..k] + post_tag + word[k..]; a word token the matcher
\* answers None for, and every separator token, is emitted verbatim; without
\* cropping every token of the string is emitted, in order.
C1_Step ==
    (pc = "fold" /\ folded' = folded + 1 /\ highlight) =>
        LET t == tokens[interval[folded + 1]]
            w == Lexicon[t].word
            k == matcher[t]
        IN /\ (Lexicon[t].kind = "word" /\ k # None /\ StrictlyInside(w, k))
                 => out' = out \o PRE \o SubSeq(w, 1, k) \o POST \o SubSeq(w, k + 1, Len(w))
           /\ (Lexicon[t].kind # "word" \/ k = None) => out' = out \o w

C1_HighlightInWord ==
    /\ []((pc \in {"fold", "done"} /\ ~Cropping) => interval = Positions(Len(tokens)))
    /\ [][C1_Step]_vars

C1_Witness ==
    /\ pc = "done" /\ highlight /\ crop = None
    /\ tokens = <<2, 3, 1>> /\ matcher[1] = 2 /\ matcher[2] = None
    /\ out = <<"b", "d", "s", "<em>", "L", "c", "</em>", "a">>

\* C2: when k equals the byte length of the word, exceeds it, or falls inside
\* a multi-byte character, the whole word is wrapped; the output is always
\* valid UTF-8 and the formatter never fails.
C2_Step ==
    (pc = "fold" /\ folded' = folded + 1 /\ highlight) =>
        LET t == tokens[interval[folded + 1]]
            w == Lexicon[t].word
            k == matcher[t]
        IN (Lexicon[t].kind = "word" /\ k # None
              /\ (k >= Len(w) \/ (k > 0 /\ IsContinuation(w[k + 1]))))
             => out' = out \o PRE \o w \o POST

C2_BoundaryGuard ==
    /\ [](ValidUtf8(out) /\ pc # "panic")
    /\ [][C2_Step]_vars

C2_Witness ==
    /\ pc = "done" /\ highlight /\ crop = None
    /\ tokens = <<1, 3>> /\ matcher[1] = 1
    /\ out = <<"<em>", "L", "c", "a", "</em>", "s">>

\* C3: with crop = Some(L), L > 0, the output is made of at most L word tokens
\* of the source; with no match it holds at most one crop marker, which is
\* trailing.
C3_CropBudget ==
    (pc = "done" /\ Cropping) =>
        /\ StripMarkup(out) = collect_words(tokens, interval)
        /\ \A i \in 1..(Len(interval) - 1) : interval[i] < interval[i + 1]
        /\ WordsIn(1, Len(tokens)) >= Cardinality({ i \in 1..Len(interval) :
                                         Lexicon[tokens[interval[i]]].kind = "word" })
        /\ Cardinality({ i \in 1..Len(interval) :
                            Lexicon[tokens[interval[i]]].kind = "word" }) <= crop
        /\ NoMatch => /\ CountOf(out, MARK[1]) <= 1
                      /\ CountOf(out, MARK[1]) = 1 => EndsWithMarker(out)

C3_Witness ==
    /\ pc = "done" /\ crop = 2 /\ ~NoMatch
    /\ Len(tokens) = MaxLen /\ WordsIn(1, Len(tokens)) > 2
    /\ Cardinality({ i \in 1..Len(interval) :
                        Lexicon[tokens[interval[i]]].kind = "word" }) = 2

\* C4: crop without a match emits the tokens from the start until the word
\* count reaches L, adds no highlight tag, and appends the crop marker exactly
\* when a source token exists beyond the emitted ones.
C4_CropNoMatch ==
    (pc = "done" /\ Cropping /\ NoMatch) =>
        LET n == Len(interval)
        IN /\ interval = Positions(n)
           /\ n < Len(tokens) => WordsIn(1, n) = crop
           /\ CountOf(out, PRE[1]) = 0 /\ CountOf(out, POST[1]) = 0
           /\ out = Source(SubSeq(tokens, 1, n))
                      \o (IF n < Len(tokens) THEN MARK ELSE <<>>)

\* C5: crop with a match appends the crop marker exactly when a source token
\* after the last emitted token is omitted.
C5_CropTailMarker ==
    (pc = "done" /\ Cropping /\ ~NoMatch) =>
        (EndsWithMarker(out) <=> interval[Len(interval)] < Len(tokens))

\* C6: crop with a match prepends the crop marker exactly when
\* total_before > L / 2, and exactly when a token preceding the match is
\* omitted from the output.
C6_CropHeadMarker ==
    (pc = "done" /\ Cropping /\ ~NoMatch) =>
        /\ StartsWithMarker(out) <=> WordsIn(1, FirstMatch - 1) > crop \div 2
        /\ StartsWithMarker(out) <=> interval[1] > 1

\* C7: with crop and highlight and a match M, M is in the emitted interval,
\* every word token of the interval the matcher answers Some for is wrapped
\* with the tags, every other token of the interval is verbatim, and nothing
\* outside the interval is emitted.
RECURSIVE C7_Parses(_, _)
C7_Parses(s, positions) ==
    IF positions = <<>> THEN s = <<>> \/ s = MARK
    ELSE LET t == tokens[Head(positions)]
             w == Lexicon[t].word
             pieces == IF Lexicon[t].kind = "word" /\ matcher[t] # None
                       THEN { PRE \o SubSeq(w, 1, j) \o POST \o SubSeq(w, j + 1, Len(w)) :
                                 j \in 0..Len(w) }
                       ELSE {w}
         IN \E p \in pieces :
               /\ Len(s) >= Len(p)
               /\ SubSeq(s, 1, Len(p)) = p
               /\ C7_Parses(SubSeq(s, Len(p) + 1, Len(s)), Tail(positions))

C7_HighlightCrop ==
    (pc = "done" /\ Cropping /\ highlight /\ ~NoMatch) =>
        /\ \E i \in 1..Len(interval) : interval[i] = FirstMatch
        /\ Contiguous(interval)
        /\ C7_Parses(IF StartsWithMarker(out) THEN Tail(out) ELSE out, interval)

C7_Witness ==
    /\ pc = "done" /\ crop = 1 /\ highlight
    /\ tokens = <<2, 3, 1, 3>> /\ matcher[1] = 2 /\ matcher[2] = None /\ matcher[3] = None
    /\ out = <<"...", "<em>", "L", "c", "</em>", "a">>

\* C8 as stated: whenever the matcher returns None for every token,
\* format_string(s) = s, whatever the options.
C8_IdempotentAnyOptions ==
    (pc = "done" /\ NoMatch) => out = Source(tokens)

\* C8 amended: when the matcher returns None for every token and crop is
\* None, Some(0), or Some(L) with fewer than L word tokens in s,
\* format_string(s) = s.
C8_IdempotentNoCrop ==
    (pc = "done" /\ NoMatch /\ (~Cropping \/ WordsIn(1, Len(tokens)) < crop)) =>
        out = Source(tokens)

C8_Witness ==
    /\ pc = "done" /\ NoMatch /\ highlight /\ crop = 0
    /\ tokens = <<1, 3, 2>>
    /\ out = <<"L", "c", "a", "s", "b", "d">>

\* C9 (offsets): the MatchInfo list holds, in scan order, one entry per matched
\* word token, with start the sum of the byte lengths of the preceding slices
\* and length the matcher's k; starts are strictly increasing.
C9_Offsets ==
    LET mw == MatchedWords(scanned)
    IN /\ Len(infos) = Len(mw)
       /\ \A j \in 1..Len(infos) :
             /\ infos[j].start = Offset(mw[j])
             /\ infos[j].length = matcher[tokens[mw[j]]]
       /\ \A j \in 1..(Len(infos) - 1) : infos[j].start < infos[j + 1].start

\* C9: as C9_Offsets, and slicing the original string at
\* [start, start + length) yields the matched prefix of the token.
C9_MatchOffsets ==
    /\ C9_Offsets
    /\ LET mw == MatchedWords(scanned)
           src == Source(tokens)
       IN \A j \in 1..Len(infos) :
             LET w == Lexicon[tokens[mw[j]]].word
                 a == infos[j].start
                 n == infos[j].length
             IN /\ n <= Len(w)
                /\ a + n <= Len(src)
                /\ SubSeq(src, a + 1, a + n) = SubSeq(w, 1, n)

\* C10: for every MatchInfo, start + length is at most the byte length of the
\* original string.
C10_MatchBounds ==
    \A j \in 1..Len(infos) :
        infos[j].start + infos[j].length <= Len(Source(tokens))

\* =========================================================================
\* Index::perform_search: pagination clamp, filter and sort parsing, the
\* FormatPlan (compute_formatted_options) and the handling of one hit.
\* =========================================================================

\* ---------------------------------------------------------------- bounds
MaxPageDelta == 1       \* offsets and limits tried around 0 and around the hard limit
MaxFilterLen == 2       \* elements of a filter array
MaxFilterOrs == 2       \* elements of a nested filter array
MaxHighlightAttrs == 2  \* entries of attributesToHighlight
MaxCropAttrs == 2       \* entries of attributesToCrop
MaxSort == 2            \* entries of the sort list

\* ------------------------------------------------------ program constants
HARD_RESULT_LIMIT == 1000
DEFAULT_CROP_LENGTH == 10

\* Option<T>
OptSome(x) == [some |-> TRUE, v |-> x]
OptNone == [some |-> FALSE, v |-> <<>>]

Min(a, b) == IF a < b THEN a ELSE b
Abs(a) == IF a < 0 THEN 0 - a ELSE a

\* the subsets of S with n elements at most
SubsetsUpTo(S, n) == { A \in SUBSET S : Cardinality(A) <= n }

\* the iteration orders of an unordered set
Orders(S) ==
    { o \in [1..Cardinality(S) -> S] : \A i, j \in 1..Cardinality(S) : o[i] = o[j] => i = j }

\* ------------------------------------------------------------ pagination
PageValues ==
    (0..MaxPageDelta)
        \cup ((HARD_RESULT_LIMIT - MaxPageDelta)..(HARD_RESULT_LIMIT + MaxPageDelta))

\* `min(query.offset.unwrap_or(0), HARD_RESULT_LIMIT)`, without the min
clamp_offset_unclamped(offset) == IF offset.some THEN offset.v ELSE 0

\* `min(query.offset.unwrap_or(0), HARD_RESULT_LIMIT)`
clamp_offset(offset) ==
    Min(IF offset.some THEN offset.v ELSE 0, HARD_RESULT_LIMIT)

\* `min(query.limit, HARD_RESULT_LIMIT.saturating_sub(offset))`
clamp_limit(limit, offset) ==
    Min(limit, saturating_sub(HARD_RESULT_LIMIT, offset))

\* ---------------------------------------------------------------- filter
\* a serde_json::Value of the filter: its type and, for an Array, its elements
FilterValue(t, items) == [t |-> t, items |-> items]

FilterScalarTypes == {"String", "Number", "Null"}
FilterOrTypes == {"String", "Number", "Array"}
FilterTopScalarTypes == {"String", "Number", "Bool", "Object", "Null"}

FilterOrsValues ==
    { FilterValue("Array", items) :
        items \in SeqsUpTo({ FilterValue(t, <<>>) : t \in FilterOrTypes }, MaxFilterOrs) }

FilterElements ==
    { FilterValue(t, <<>>) : t \in FilterScalarTypes } \cup FilterOrsValues

FilterValues ==
    { FilterValue(t, <<>>) : t \in FilterTopScalarTypes }
        \cup { FilterValue("Array", items) : items \in SeqsUpTo(FilterElements, MaxFilterLen) }

FilterOk == [kind |-> "Ok", value |-> FilterValue("Null", <<>>), expected |-> <<>>]
InvalidExpression(expected, v) ==
    [kind |-> "InvalidExpression", value |-> v, expected |-> expected]

\* the inner loop of parse_filter_array over a nested array
RECURSIVE parse_filter_ors(_)
parse_filter_ors(arr) ==
    IF arr = <<>> THEN FilterOk
    ELSE IF Head(arr).t = "String" THEN parse_filter_ors(Tail(arr))
         ELSE InvalidExpression(<<"String">>, Head(arr))

\* parse_filter_array that takes a nested array as it is
RECURSIVE parse_filter_array_unchecked_ors(_)
parse_filter_array_unchecked_ors(arr) ==
    IF arr = <<>> THEN FilterOk
    ELSE IF Head(arr).t \in {"String", "Array"}
         THEN parse_filter_array_unchecked_ors(Tail(arr))
         ELSE InvalidExpression(<<"String", "[String]">>, Head(arr))

\* parse_filter_array, up to the call of Filter::from_array
RECURSIVE parse_filter_array(_)
parse_filter_array(arr) ==
    IF arr = <<>> THEN FilterOk
    ELSE LET value == Head(arr)
         IN IF value.t = "String" THEN parse_filter_array(Tail(arr))
            ELSE IF value.t = "Array"
                 THEN LET ors == parse_filter_ors(value.items)
                      IN IF ors.kind = "Ok" THEN parse_filter_array(Tail(arr)) ELSE ors
                 ELSE InvalidExpression(<<"String", "[String]">>, value)

\* parse_filter, up to the calls of Filter::from_str and Filter::from_array
parse_filter(facets) ==
    IF facets.t = "String" THEN FilterOk
    ELSE IF facets.t = "Array" THEN parse_filter_array(facets.items)
         ELSE InvalidExpression(<<"Array">>, facets)

\* ------------------------------------------------------------------ sort
\* a sort string: "field" is a plain criterion, "geo" a _geoPoint(lat,lng)
\* criterion, "geo_bad" a string the geo regex matches with a capture that
\* is no float (such as "1.2.3" or "--"), "invalid" a string
\* AscDesc::from_str rejects
SortEntry(kind, lat, lng) == [kind |-> kind, lat |-> lat, lng |-> lng]

SortEntries ==
    { SortEntry("field", 0, 0), SortEntry("geo", 11, 11), SortEntry("geo", 12, 12),
      SortEntry("geo_bad", 0, 0) }

\* `sort.iter().map(|s| AscDesc::from_str(s)).collect()` is Ok
asc_desc_ok(sort) == \A i \in 1..Len(sort) : sort[i].kind # "invalid"

\* GEO_REGEX.captures(sort) is Some
geo_regex_matches(entry) == entry.kind \in {"geo", "geo_bad"}

\* the last sort string the regex matches, 0 when none does
RECURSIVE find_map_geo_last(_, _)
find_map_geo_last(sorts, i) ==
    IF i > Len(sorts) THEN 0
    ELSE LET later == find_map_geo_last(sorts, i + 1)
         IN IF later # 0 THEN later
            ELSE IF geo_regex_matches(sorts[i]) THEN i ELSE 0

\* `sorts.iter().find_map(|sort| GEO_REGEX.captures(sort))`: index of the
\* first sort string the regex matches, 0 when none does
RECURSIVE find_map_geo(_, _)
find_map_geo(sorts, i) ==
    IF i > Len(sorts) THEN 0
    ELSE IF geo_regex_matches(sorts[i]) THEN i ELSE find_map_geo(sorts, i + 1)

\* milli::distance_between_two_points, rounded
distance_between_two_points(base, point) ==
    Abs(base[1] - point[1]) + Abs(base[2] - point[2])

\* C17: the matcher is consulted only for word tokens, never for separators,
\* in the highlight fold, the crop-window search and compute_value_matches;
\* so when a crop window is built around a match, the match M is a word
\* token, and no separator produces a MatchInfo.
C17_MatcherOnlyOnWords ==
    /\ \A p \in consulted : Lexicon[tokens[p]].kind = "word"
    /\ (pc \in {"fold", "done"} /\ Cropping /\ Len(buffer) < Len(tokens))
          => Lexicon[tokens[Len(buffer) + 1]].kind = "word"
    /\ Len(infos) <= WordsIn(1, scanned)

\* ---------------------------------------------------------------- fields
\* fields_ids_map: the name of every FieldId of the index
FieldNames == <<"title", "year", "_geo", "flag", "doggo", "doggo.name">>

FieldIds == 1..Len(FieldNames)

\* FieldsIdsMap::name
fields_ids_map_name(id) == FieldNames[id]

\* FieldsIdsMap::id: the id of a name, None for a name the index does not know
fields_ids_map_id(name) ==
    IF \E id \in FieldIds : FieldNames[id] = name
    THEN CHOOSE id \in FieldIds : FieldNames[id] = name
    ELSE None

\* the closure `fids`: the ids an attribute set names, all displayed ids
\* when it holds "*" (`ids = displayed_ids.clone()` replaces what was
\* inserted before the break)
fids(attrs, displayed) ==
    IF "*" \in attrs THEN displayed
    ELSE { id \in FieldIds : FieldNames[id] \in attrs }

\* the ids to retrieve without `.intersection(&displayed_ids)`
to_retrieve_ids_not_intersected(attributes_to_retrieve, displayed) ==
    IF attributes_to_retrieve.some
    THEN { id \in FieldIds : FieldNames[id] \in attributes_to_retrieve.v }
    ELSE displayed

\* `query.attributes_to_retrieve.as_ref().map(fids)
\*      .unwrap_or_else(|| displayed_ids.clone()).intersection(&displayed_ids)`
to_retrieve_ids_of(attributes_to_retrieve, displayed) ==
    (IF attributes_to_retrieve.some
     THEN fids(attributes_to_retrieve.v, displayed)
     ELSE displayed) \cap displayed

\* ------------------------------------------------------------ FormatPlan
\* FormatOptions
FormatOptions(hl, cr) == [highlight |-> hl, crop |-> cr]

\* FormatOptions::default()
FormatOptionsDefault == FormatOptions(FALSE, None)

\* merge that keeps the crop of `other` when both are set
merge_last_crop(self, other) ==
    FormatOptions(self.highlight \/ other.highlight,
                  IF other.crop # None THEN other.crop ELSE self.crop)

\* FormatOptions::merge
merge(self, other) ==
    FormatOptions(self.highlight \/ other.highlight,
                  IF self.crop # None THEN self.crop ELSE other.crop)

\* BTreeMap::insert on the plan (a function FieldId -> FormatOptions)
plan_insert(plan, id, format) ==
    [i \in (DOMAIN plan) \cup {id} |-> IF i = id THEN format ELSE plan[i]]

\* the loop over displayed_ids overwriting the entries the plan already has only
plan_insert_all_present(plan, ids, format) ==
    [i \in DOMAIN plan |-> IF i \in ids THEN format ELSE plan[i]]

\* `for id in displayed_ids { formatted_options.insert(*id, new_format) }`
plan_insert_all(plan, ids, format) ==
    [i \in (DOMAIN plan) \cup ids |-> IF i \in ids THEN format ELSE plan[i]]

\* add_highlight_to_formatted_options; attrs is attr_to_highlight in the
\* order the HashSet iterates it
RECURSIVE add_highlight_to_formatted_options(_, _, _)
add_highlight_to_formatted_options(plan, attrs, displayed) ==
    IF attrs = <<>> THEN plan
    ELSE LET new_format == FormatOptions(TRUE, None)
             id == fields_ids_map_id(Head(attrs))
         IN IF Head(attrs) = "*" THEN plan_insert_all(plan, displayed, new_format)
            ELSE add_highlight_to_formatted_options(
                     IF id # None /\ id \in displayed
                     THEN plan_insert(plan, id, new_format) ELSE plan,
                     Tail(attrs), displayed)

\* an attributesToCrop entry is a sequence of symbols: a symbol is ":", a
\* decimal digit, or a piece of text without ":" (a field name, "*", "x")
Digits == {"1", "2"}

DigitValue(d) == IF d = "1" THEN 1 ELSE 2

\* position of the last ":" of an entry, 0 when it has none
last_colon(attr) ==
    IF \E i \in 1..Len(attr) : attr[i] = ":"
    THEN CHOOSE i \in 1..Len(attr) :
             attr[i] = ":" /\ \A j \in (i + 1)..Len(attr) : attr[j] # ":"
    ELSE 0

\* str::parse::<usize>: Some(n) for a non-empty run of digits
RECURSIVE digits_value(_)
digits_value(text) ==
    IF text = <<>> THEN 0
    ELSE 10 * digits_value(SubSeq(text, 1, Len(text) - 1)) + DigitValue(text[Len(text)])

parse_usize(text) ==
    IF text # <<>> /\ \A i \in 1..Len(text) : text[i] \in Digits
    THEN OptSome(digits_value(text))
    ELSE OptNone

\* `attr.rsplitn(2, ':')` and the match on it: (attr_name, attr_len)
split_crop_attr(attr, crop_length) ==
    LET c == last_colon(attr)
        len == parse_usize(SubSeq(attr, c + 1, Len(attr)))
    IN IF c > 0
       THEN [attr_name |-> SubSeq(attr, 1, c - 1),
             attr_len |-> IF len.some THEN len.v ELSE crop_length]
       ELSE [attr_name |-> attr, attr_len |-> crop_length]

\* the upsert that replaces the whole entry
crop_upsert_replace(plan, id, attr_len) ==
    plan_insert(plan, id, FormatOptions(FALSE, attr_len))

\* `.entry(id).and_modify(|f| f.crop = Some(attr_len)).or_insert(..)`
crop_upsert(plan, id, attr_len) ==
    IF id \in DOMAIN plan
    THEN plan_insert(plan, id, FormatOptions(plan[id].highlight, attr_len))
    ELSE plan_insert(plan, id, FormatOptions(FALSE, attr_len))

\* the upsert applied to the ids of a set, one after the other
RECURSIVE crop_upsert_all(_, _, _)
crop_upsert_all(plan, ids, attr_len) ==
    IF ids = {} THEN plan
    ELSE LET id == CHOOSE i \in ids : \A j \in ids : i <= j
         IN crop_upsert_all(crop_upsert(plan, id, attr_len), ids \ {id}, attr_len)

\* a name of the entry as FieldsIdsMap::id sees it: a single piece of text
crop_attr_id(attr_name) ==
    IF Len(attr_name) = 1 THEN fields_ids_map_id(attr_name[1]) ELSE None

\* the crop loop with the `break` of the highlight loop after "*"
RECURSIVE add_crop_breaking_at_star(_, _, _, _)
add_crop_breaking_at_star(plan, attrs, crop_length, displayed) ==
    IF attrs = <<>> THEN plan
    ELSE LET split == split_crop_attr(Head(attrs), crop_length)
             id == crop_attr_id(split.attr_name)
         IN IF split.attr_name = <<"*">>
            THEN crop_upsert_all(plan, displayed, split.attr_len)
            ELSE add_crop_breaking_at_star(
                     IF id # None /\ id \in displayed
                     THEN crop_upsert(plan, id, split.attr_len) ELSE plan,
                     Tail(attrs), crop_length, displayed)

\* add_crop_to_formatted_options
RECURSIVE add_crop_to_formatted_options(_, _, _, _)
add_crop_to_formatted_options(plan, attrs, crop_length, displayed) ==
    IF attrs = <<>> THEN plan
    ELSE LET split == split_crop_attr(Head(attrs), crop_length)
             star == IF split.attr_name = <<"*">>
                     THEN crop_upsert_all(plan, displayed, split.attr_len)
                     ELSE plan
             id == crop_attr_id(split.attr_name)
             named == IF id # None /\ id \in displayed
                      THEN crop_upsert(star, id, split.attr_len)
                      ELSE star
         IN add_crop_to_formatted_options(named, Tail(attrs), crop_length, displayed)

\* the loop with `insert` in place of `entry(..).or_insert(..)`
add_non_formatted_ids_overwriting(plan, to_retrieve) ==
    [i \in (DOMAIN plan) \cup to_retrieve |->
        IF i \in to_retrieve THEN FormatOptions(FALSE, None) ELSE plan[i]]

\* add_non_formatted_ids_to_formatted_options
add_non_formatted_ids_to_formatted_options(plan, to_retrieve) ==
    [i \in (DOMAIN plan) \cup to_retrieve |->
        IF i \in DOMAIN plan THEN plan[i] ELSE FormatOptions(FALSE, None)]

\* ---------------------------------------------------------------- values
\* a serde_json::Value of a document: its type, the bytes of a String, the
\* number of a Number, the (key, value) entries of an Object
StringValue(s) == [t |-> "String", s |-> s, n |-> 0, items |-> <<>>]
NumberValue(n) == [t |-> "Number", s |-> <<>>, n |-> n, items |-> <<>>]
BoolValue == [t |-> "Bool", s |-> <<>>, n |-> 0, items |-> <<>>]
NullValue == [t |-> "Null", s |-> <<>>, n |-> 0, items |-> <<>>]
ObjectValue(items) == [t |-> "Object", s |-> <<>>, n |-> 0, items |-> items]
\* the items of an Array are its elements, in order
ArrayValue(items) == [t |-> "Array", s |-> <<>>, n |-> 0, items |-> items]

Entry(k, v) == [k |-> k, v |-> v]

\* `number.to_string()`: the numbers of the model have two digits, their
\* decimal text is two one-byte characters that make one word
number_to_string(n) == word_of(2)

\* the word of the lexicon a string starts with, 0 when there is none
first_token(s) ==
    LET starts == { t \in TokenIds :
                      Len(word_of(t)) <= Len(s) /\ SubSeq(s, 1, Len(word_of(t))) = word_of(t) }
    IN IF starts = {} THEN 0 ELSE CHOOSE t \in starts : TRUE

\* `analyzer.analyze(s).reconstruct()`: the pairs that cover the string
RECURSIVE analyze(_)
analyze(s) ==
    IF s = <<>> \/ first_token(s) = 0 THEN <<>>
    ELSE <<first_token(s)>>
            \o analyze(SubSeq(s, Len(word_of(first_token(s))) + 1, Len(s)))

\* Value::as_f64
as_f64(v) == IF v.t = "Number" THEN OptSome(v.n) ELSE OptNone

\* position of a key in a map, 0 when the map does not hold it
key_index(map, key) ==
    IF \E i \in 1..Len(map) : map[i].k = key
    THEN CHOOSE i \in 1..Len(map) : map[i].k = key
    ELSE 0

\* `value[key]` of serde_json: Null for a missing key and for a non-object
value_index(v, key) ==
    IF v.t = "Object" /\ key_index(v.items, key) # 0
    THEN v.items[key_index(v.items, key)].v
    ELSE NullValue

\* the keys of a map
Keys(map) == { map[i].k : i \in 1..Len(map) }

\* IndexMap::insert that always appends
index_map_insert_append(map, key, value) == Append(map, Entry(key, value))

\* IndexMap::insert: the value of a present key is replaced in place, a
\* new key is appended
index_map_insert(map, key, value) ==
    IF key_index(map, key) # 0
    THEN [map EXCEPT ![key_index(map, key)] = Entry(key, value)]
    ELSE Append(map, Entry(key, value))

\* `name.split('.')`: the path of a field name, for the names of the model
field_path(name) ==
    IF name = "doggo.name" THEN <<"doggo", "name">> ELSE <<name>>

\* a key handed to the closure of map_leaf_values is a path, a sequence of
\* names; milli::is_faceted_by(field, facet): facet is a prefix of field
is_faceted_by(field, facet) ==
    Len(facet) <= Len(field) /\ SubSeq(field, 1, Len(facet)) = facet

\* permissive_json_pointer::select_values below base_key: an entry a
\* selector names, or that lies under a selector, is kept whole; of an
\* entry that lies above a selector the selected part is kept, if any
RECURSIVE select_in_object(_, _, _)
RECURSIVE select_in_array(_, _, _)
select_in_object(map, base_key, selectors) ==
    IF map = <<>> THEN <<>>
    ELSE LET e == Head(map)
             key == Append(base_key, e.k)
             rest == select_in_object(Tail(map), base_key, selectors)
             part == IF e.v.t = "Object"
                     THEN select_in_object(e.v.items, key, selectors)
                     ELSE IF e.v.t = "Array"
                          THEN select_in_array(e.v.items, key, selectors)
                          ELSE <<>>
         IN IF \E sel \in selectors : is_faceted_by(key, sel)
            THEN <<e>> \o rest
            ELSE IF (\E sel \in selectors : is_faceted_by(sel, key)) /\ part # <<>>
                 THEN <<Entry(e.k, [e.v EXCEPT !.items = part])>> \o rest
                 ELSE rest

select_in_array(items, base_key, selectors) ==
    IF items = <<>> THEN <<>>
    ELSE LET v == Head(items)
             rest == select_in_array(Tail(items), base_key, selectors)
             part == IF v.t = "Object"
                     THEN select_in_object(v.items, base_key, selectors)
                     ELSE IF v.t = "Array"
                          THEN select_in_array(v.items, base_key, selectors)
                          ELSE <<>>
         IN IF part # <<>> THEN <<[v EXCEPT !.items = part]>> \o rest ELSE rest

\* permissive_json_pointer::select_values
select_values(map, selectors) ==
    select_in_object(map, <<>>, { field_path(sel) : sel \in selectors })

\* ------------------------------------------------------- format_string
\* `tokens_interval.fold(out, ..)`
RECURSIVE fold_interval(_, _, _, _)
fold_interval(toks, positions, hl, m) ==
    IF positions = <<>> THEN <<>>
    ELSE fold_push(toks[Head(positions)], hl, m)
            \o fold_interval(toks, Tail(positions), hl, m)

\* Formatter::format_string as a function of the analyzed string
format_string(toks, m, hl, cr) ==
    IF cr # None /\ cr > 0
    THEN LET p == next_if_loop(toks, m, 0)
             buf == Positions(p)
         IN IF p < Len(toks)
            THEN LET total_count == word_count(toks, buf)
                     crop_len_before == cr \div 2
                     marker == head_is_cropped(total_count, crop_len_before)
                     before == skip_while(toks, buf, total_count, crop_len_before)
                     crop_len_after ==
                         crop_len_after_of(cr, crop_len_before, total_count, marker)
                     after == after_iter(toks, p + 1, 0, crop_len_after)
                 IN (IF marker THEN DEFAULT_CROP_MARKER ELSE <<>>)
                       \o fold_interval(toks,
                              chain_interval(before.rest, p + 1, after.items), hl, m)
                       \o (IF after.pulled < Len(toks) THEN DEFAULT_CROP_MARKER ELSE <<>>)
            ELSE LET taken == no_match_take(toks, buf, 0, cr)
                 IN collect_words(toks, taken.items)
                       \o (IF taken.rest # <<>> THEN DEFAULT_CROP_MARKER ELSE <<>>)
    ELSE fold_interval(toks, Positions(Len(toks)), hl, m)

\* format_value that hands its own options, crop included, to the elements
\* of an array and to the values of an object
RECURSIVE format_value_passing_crop(_, _, _)
format_value_passing_crop(value, m, format) ==
    IF value.t = "String"
    THEN StringValue(format_string(analyze(value.s), m, format.highlight, format.crop))
    ELSE IF value.t = "Object"
    THEN ObjectValue([i \in 1..Len(value.items) |->
             Entry(value.items[i].k, format_value_passing_crop(value.items[i].v, m, format))])
    ELSE IF value.t = "Array"
    THEN ArrayValue([i \in 1..Len(value.items) |->
             format_value_passing_crop(value.items[i], m, format)])
    ELSE IF value.t = "Number"
    THEN StringValue(format_string(analyze(number_to_string(value.n)), m,
                                   format.highlight, format.crop))
    ELSE value

\* Formatter::format_value
RECURSIVE format_value(_, _, _)
format_value(value, m, format) ==
    IF value.t = "String"
    THEN StringValue(format_string(analyze(value.s), m, format.highlight, format.crop))
    ELSE IF value.t = "Object"
    THEN ObjectValue([i \in 1..Len(value.items) |->
             Entry(value.items[i].k,
                   format_value(value.items[i].v, m,
                                FormatOptions(format.highlight, None)))])
    ELSE IF value.t = "Array"
    THEN ArrayValue([i \in 1..Len(value.items) |->
             format_value(value.items[i], m, FormatOptions(format.highlight, None))])
    ELSE IF value.t = "Number"
    THEN StringValue(format_string(analyze(number_to_string(value.n)), m,
                                   format.highlight, format.crop))
    ELSE value

\* ------------------------------------------------------------- documents
\* insert_geo_distance: the document afterwards, or the panic of `unwrap`
\* on a capture that is no float
insert_geo_distance(sorts, doc) ==
    LET g == find_map_geo(sorts, 1)
        geo_point == IF key_index(doc, "_geo") # 0
                     THEN doc[key_index(doc, "_geo")].v ELSE NullValue
        lat == as_f64(value_index(geo_point, "lat"))
        lng == as_f64(value_index(geo_point, "lng"))
    IN IF g = 0 THEN [panic |-> FALSE, document |-> doc]
       ELSE IF sorts[g].kind = "geo_bad" THEN [panic |-> TRUE, document |-> doc]
       ELSE IF lat.some /\ lng.some
       THEN [panic |-> FALSE,
             document |-> index_map_insert(doc, "_geoDistance",
                 NumberValue(distance_between_two_points(
                     <<sorts[g].lat, sorts[g].lng>>, <<lat.v, lng.v>>)))]
       ELSE [panic |-> FALSE, document |-> doc]

\* make_document followed at once by insert_geo_distance, as if lines
\* 250-252 came before the matches and the formatting
make_document_with_geo_distance(attributes_to_retrieve, obkv) ==
    insert_geo_distance(
        IF query.sort.some THEN query.sort.v ELSE <<>>,
        select_values(
            [i \in 1..Len(obkv) |-> Entry(fields_ids_map_name(obkv[i].k), obkv[i].v)],
            { fields_ids_map_name(fid) : fid \in attributes_to_retrieve })).document

\* the stored entries, named, with no projection
make_document_unprojected(attributes_to_retrieve, obkv) ==
    [i \in 1..Len(obkv) |-> Entry(fields_ids_map_name(obkv[i].k), obkv[i].v)]

\* make_document: the stored (FieldId, value) entries, named, then
\* projected on attributes_to_retrieve
make_document(attributes_to_retrieve, obkv) ==
    select_values(
        [i \in 1..Len(obkv) |-> Entry(fields_ids_map_name(obkv[i].k), obkv[i].v)],
        { fields_ids_map_name(fid) : fid \in attributes_to_retrieve })

\* compute_value_matches, Value::String: the loop over the pairs
RECURSIVE string_matches(_, _, _, _)
string_matches(list, toks, m, cursor) ==
    IF toks = <<>> THEN list
    ELSE string_matches(match_info_push(list, Head(toks), m, cursor),
                        Tail(toks), m, advance_start(cursor, Head(toks)))

\* compute_value_matches: the list with the MatchInfo of a value added
RECURSIVE compute_value_matches(_, _, _)
compute_value_matches(list, value, m) ==
    IF value.t = "String" THEN string_matches(list, analyze(value.s), m, 0)
    ELSE IF value.t = "Number"
    THEN string_matches(list, analyze(number_to_string(value.n)), m, 0)
    ELSE IF value.t = "Array" /\ value.items # <<>>
    THEN compute_value_matches(
             compute_value_matches(list, Head(value.items), m),
             ArrayValue(Tail(value.items)), m)
    ELSE IF value.t = "Object" /\ value.items # <<>>
    THEN compute_value_matches(
             compute_value_matches(list, Head(value.items).v, m),
             ObjectValue(Tail(value.items)), m)
    ELSE list

\* `Ord for String` on the keys of a document: the keys in byte order
KeyOrder == <<"_geo", "_geoDistance", "doggo", "flag", "title", "year">>

str_lt(a, b) ==
    \E i, j \in 1..Len(KeyOrder) : KeyOrder[i] = a /\ KeyOrder[j] = b /\ i < j

\* BTreeMap::insert: the entries stay in the order of their keys
btree_map_insert(map, key, value) ==
    LET Before(e) == str_lt(e.k, key)
        After(e) == str_lt(key, e.k)
    IN SelectSeq(map, Before) \o <<Entry(key, value)>> \o SelectSeq(map, After)

\* compute_matches, the loop without the test `!infos.is_empty()`
RECURSIVE compute_matches_keeping_empty(_, _, _)
compute_matches_keeping_empty(m, doc, matches) ==
    IF doc = <<>> THEN matches
    ELSE compute_matches_keeping_empty(m, Tail(doc),
             btree_map_insert(matches, Head(doc).k,
                              compute_value_matches(<<>>, Head(doc).v, m)))

\* compute_matches: `for (key, value) in document`, from the matches so far
RECURSIVE compute_matches_loop(_, _, _)
compute_matches_loop(m, doc, matches) ==
    IF doc = <<>> THEN matches
    ELSE LET list == compute_value_matches(<<>>, Head(doc).v, m)
         IN compute_matches_loop(m, Tail(doc),
                IF list # <<>>
                THEN btree_map_insert(matches, Head(doc).k, list)
                ELSE matches)

\* compute_matches: the entries of the BTreeMap, in the order of their keys
compute_matches(m, doc) == compute_matches_loop(m, doc, <<>>)

\* the closure of format_fields: the options of all the entries of the
\* plan that apply to the key, merged
RECURSIVE merged_format(_, _, _)
merged_format(plan, ids, key) ==
    IF ids = {} THEN FormatOptionsDefault
    ELSE LET last == CHOOSE i \in ids : \A j \in ids : j <= i
             name == field_path(fields_ids_map_name(last))
             acc == merged_format(plan, ids \ {last}, key)
         IN IF is_faceted_by(name, key) \/ is_faceted_by(key, name)
            THEN merge(acc, plan[last])
            ELSE acc

\* permissive_json_pointer::map_leaf_values with the closure of
\* format_fields: every leaf below base_key is formatted; the elements of
\* an array have the key of the array
RECURSIVE map_leaf_values(_, _, _, _)
RECURSIVE map_leaf_values_in_array(_, _, _, _)
map_leaf_values(map, base_key, m, plan) ==
    [i \in 1..Len(map) |->
        LET key == Append(base_key, map[i].k)
        IN Entry(map[i].k,
                 IF map[i].v.t = "Object"
                 THEN ObjectValue(map_leaf_values(map[i].v.items, key, m, plan))
                 ELSE IF map[i].v.t = "Array"
                 THEN ArrayValue(map_leaf_values_in_array(map[i].v.items, key, m, plan))
                 ELSE format_value(map[i].v, m, merged_format(plan, DOMAIN plan, key)))]

map_leaf_values_in_array(items, base_key, m, plan) ==
    [i \in 1..Len(items) |->
        IF items[i].t = "Object"
        THEN ObjectValue(map_leaf_values(items[i].items, base_key, m, plan))
        ELSE IF items[i].t = "Array"
        THEN ArrayValue(map_leaf_values_in_array(items[i].items, base_key, m, plan))
        ELSE format_value(items[i], m, merged_format(plan, DOMAIN plan, base_key))]

\* format_fields
format_fields(doc, m, plan) ==
    map_leaf_values(
        select_values(doc, { fields_ids_map_name(fid) : fid \in DOMAIN plan }),
        <<>>, m, plan)

\* -------------------------------------------------------- perform_search
DEFAULT_SEARCH_LIMIT == 20

\* `self.search(&rtxn)`: the milli search before any setter is called
search_new ==
    [offset |-> 0, limit |-> DEFAULT_SEARCH_LIMIT, filter |-> FALSE,
     sort_criteria |-> FALSE, executed |-> FALSE, documents_ids |-> <<>>]

\* Err(..) returned by perform_search
SearchErr(kind, value, expected) ==
    [kind |-> kind, value |-> value, expected |-> expected,
     hits |-> <<>>, limit |-> 0, offset |-> 0]

\* Ok(SearchResult)
SearchOk(documents, limit, offset) ==
    [kind |-> "Ok", value |-> FilterValue("Null", <<>>), expected |-> <<>>,
     hits |-> documents, limit |-> limit, offset |-> offset]

\* lines 135-141: the clamped offset and limit are given to the search
ClampPagination ==
    /\ spc = "clamp"
    /\ LET offset == clamp_offset(query.offset)
           limit == clamp_limit(query.limit, offset)
       IN search' = [search EXCEPT !.offset = offset, !.limit = limit]
    /\ spc' = "filter"
    /\ UNCHANGED << query, index, displayed_ids, to_retrieve_ids, formatted_options,
                    document, matches_info, formatted, hits, result >>
    /\ UNCHANGED << inputs, pc, cvm_vars, fmt_vars, consulted, value_vars >>

\* lines 143-147: the shape of the filter is checked by parse_filter, its
\* strings are parsed by milli's Filter (a filter, no filter, or an error)
ParseFilter ==
    /\ spc = "filter"
    /\ IF query.filter.some
       THEN LET parsed == parse_filter(query.filter.v)
            IN IF parsed.kind # "Ok"
               THEN /\ result' = SearchErr(parsed.kind, parsed.value, parsed.expected)
                    /\ spc' = "error"
                    /\ UNCHANGED search
               ELSE \E milli_filter \in {"Some", "None", "Err"} :
                       IF milli_filter = "Err"
                       THEN /\ result' = SearchErr("Milli", query.filter.v, <<>>)
                            /\ spc' = "error"
                            /\ UNCHANGED search
                       ELSE /\ search' = [search EXCEPT !.filter = (milli_filter = "Some")]
                            /\ spc' = "sort"
                            /\ UNCHANGED result
       ELSE /\ spc' = "sort"
            /\ UNCHANGED << search, result >>
    /\ UNCHANGED << query, index, displayed_ids, to_retrieve_ids, formatted_options,
                    document, matches_info, formatted, hits >>
    /\ UNCHANGED << inputs, pc, cvm_vars, fmt_vars, consulted, value_vars >>

\* lines 149-158
ParseSort ==
    /\ spc = "sort"
    /\ IF query.sort.some /\ ~asc_desc_ok(query.sort.v)
       THEN /\ result' = SearchErr("Sort", FilterValue("Null", <<>>), <<>>)
            /\ spc' = "error"
            /\ UNCHANGED search
       ELSE /\ search' = [search EXCEPT !.sort_criteria = query.sort.some]
            /\ spc' = "execute"
            /\ UNCHANGED result
    /\ UNCHANGED << query, index, displayed_ids, to_retrieve_ids, formatted_options,
                    document, matches_info, formatted, hits >>
    /\ UNCHANGED << inputs, pc, cvm_vars, fmt_vars, consulted, value_vars >>

\* lines 160-165: the index holds one document, which every query selects
Execute ==
    /\ spc = "execute"
    /\ search' = [search EXCEPT
                     !.executed = TRUE,
                     !.documents_ids =
                         IF search.offset = 0 /\ search.limit > 0 THEN <<1>> ELSE <<>>]
    /\ spc' = "fields"
    /\ UNCHANGED << query, index, displayed_ids, to_retrieve_ids, formatted_options,
                    document, matches_info, formatted, hits, result >>
    /\ UNCHANGED << inputs, pc, cvm_vars, fmt_vars, consulted, value_vars >>

\* lines 167-200
ResolveFields ==
    /\ spc = "fields"
    /\ displayed_ids' = IF index.displayed.some THEN index.displayed.v ELSE FieldIds
    /\ to_retrieve_ids' = to_retrieve_ids_of(query.attributes_to_retrieve, displayed_ids')
    /\ spc' = "highlight"
    /\ UNCHANGED << query, index, search, formatted_options,
                    document, matches_info, formatted, hits, result >>
    /\ UNCHANGED << inputs, pc, cvm_vars, fmt_vars, consulted, value_vars >>

\* compute_formatted_options, lines 371-378: the HashSet is iterated in an
\* order the program does not choose
AddHighlight ==
    /\ spc = "highlight"
    /\ \E order \in Orders(query.attributes_to_highlight) :
          formatted_options' = add_highlight_to_formatted_options(<<>>, order, displayed_ids)
    /\ spc' = "crop"
    /\ UNCHANGED << query, index, search, displayed_ids, to_retrieve_ids,
                    document, matches_info, formatted, hits, result >>
    /\ UNCHANGED << inputs, pc, cvm_vars, fmt_vars, consulted, value_vars >>

\* compute_formatted_options, lines 380-386
AddCrop ==
    /\ spc = "crop"
    /\ formatted_options' =
           add_crop_to_formatted_options(formatted_options, query.attributes_to_crop,
                                         query.crop_length, displayed_ids)
    /\ spc' = "fill"
    /\ UNCHANGED << query, index, search, displayed_ids, to_retrieve_ids,
                    document, matches_info, formatted, hits, result >>
    /\ UNCHANGED << inputs, pc, cvm_vars, fmt_vars, consulted, value_vars >>

\* compute_formatted_options, lines 388-393
AddNonFormatted ==
    /\ spc = "fill"
    /\ formatted_options' =
           IF DOMAIN formatted_options # {}
           THEN add_non_formatted_ids_to_formatted_options(formatted_options, to_retrieve_ids)
           ELSE formatted_options
    /\ spc' = "hits"
    /\ UNCHANGED << query, index, search, displayed_ids, to_retrieve_ids,
                    document, matches_info, formatted, hits, result >>
    /\ UNCHANGED << inputs, pc, cvm_vars, fmt_vars, consulted, value_vars >>

\* line 236, for the next document of documents_iter
MakeDocument ==
    /\ spc = "hits"
    /\ Len(hits) < Len(search.documents_ids)
    /\ document' = make_document(to_retrieve_ids, index.stored)
    /\ spc' = "matches"
    /\ UNCHANGED << query, index, search, displayed_ids, to_retrieve_ids,
                    formatted_options, matches_info, formatted, hits, result >>
    /\ UNCHANGED << inputs, pc, cvm_vars, fmt_vars, consulted, value_vars >>

\* lines 238-240
ComputeMatches ==
    /\ spc = "matches"
    /\ matches_info' = IF query.matches
                       THEN OptSome(compute_matches(matcher, document))
                       ELSE OptNone
    /\ spc' = "format"
    /\ UNCHANGED << query, index, search, displayed_ids, to_retrieve_ids,
                    formatted_options, document, formatted, hits, result >>
    /\ UNCHANGED << inputs, pc, cvm_vars, fmt_vars, consulted, value_vars >>

\* lines 242-248
FormatFields ==
    /\ spc = "format"
    /\ formatted' = format_fields(document, matcher, formatted_options)
    /\ spc' = "geo"
    /\ UNCHANGED << query, index, search, displayed_ids, to_retrieve_ids,
                    formatted_options, document, matches_info, hits, result >>
    /\ UNCHANGED << inputs, pc, cvm_vars, fmt_vars, consulted, value_vars >>

\* lines 250-252
InsertGeoDistance ==
    /\ spc = "geo"
    /\ IF query.sort.some
       THEN LET r == insert_geo_distance(query.sort.v, document)
            IN IF r.panic
               THEN spc' = "panic" /\ UNCHANGED document
               ELSE spc' = "push" /\ document' = r.document
       ELSE spc' = "push" /\ UNCHANGED document
    /\ UNCHANGED << query, index, search, displayed_ids, to_retrieve_ids,
                    formatted_options, matches_info, formatted, hits, result >>
    /\ UNCHANGED << inputs, pc, cvm_vars, fmt_vars, consulted, value_vars >>

\* lines 254-259
PushHit ==
    /\ spc = "push"
    /\ hits' = Append(hits, [document |-> document, formatted |-> formatted,
                             matches_info |-> matches_info])
    /\ spc' = "hits"
    /\ UNCHANGED << query, index, search, displayed_ids, to_retrieve_ids,
                    formatted_options, document, matches_info, formatted, result >>
    /\ UNCHANGED << inputs, pc, cvm_vars, fmt_vars, consulted, value_vars >>

\* lines 262-290, once documents_iter is exhausted
Assemble ==
    /\ spc = "hits"
    /\ Len(hits) = Len(search.documents_ids)
    /\ result' = SearchOk(hits, query.limit,
                          IF query.offset.some THEN query.offset.v ELSE 0)
    /\ spc' = "done"
    /\ UNCHANGED << query, index, search, displayed_ids, to_retrieve_ids,
                    formatted_options, document, matches_info, formatted, hits >>
    /\ UNCHANGED << inputs, pc, cvm_vars, fmt_vars, consulted, value_vars >>

SearchNext ==
    \/ ClampPagination
    \/ ParseFilter
    \/ ParseSort
    \/ Execute
    \/ ResolveFields
    \/ AddHighlight
    \/ AddCrop
    \/ AddNonFormatted
    \/ MakeDocument
    \/ ComputeMatches
    \/ FormatFields
    \/ InsertGeoDistance
    \/ PushHit
    \/ Assemble

\* --------------------------------------------------------------- inputs
\* a SearchQuery
SearchQuery(offset, limit, retrieve, to_crop, crop_length, to_highlight, matches, filter, sort) ==
    [offset |-> offset, limit |-> limit, attributes_to_retrieve |-> retrieve,
     attributes_to_crop |-> to_crop, crop_length |-> crop_length,
     attributes_to_highlight |-> to_highlight, matches |-> matches,
     filter |-> filter, sort |-> sort]

\* the `_geo` values of the stored document: a point, a point whose lat is
\* a String, and a String
GeoValues ==
    { ObjectValue(<<Entry("lat", NumberValue(11)), Entry("lng", NumberValue(11))>>),
      ObjectValue(<<Entry("lat", StringValue(word_of(2))), Entry("lng", NumberValue(11))>>),
      StringValue(word_of(2)) }

\* the stored document, with the field `_geo` or without it
StoredDocuments ==
    { <<Entry(1, StringValue(Source(<<2, 3, 1>>))), Entry(2, NumberValue(37)),
        Entry(4, BoolValue)>> }
    \cup { <<Entry(1, StringValue(Source(<<2, 3, 1>>))), Entry(2, NumberValue(37)),
             Entry(3, geo), Entry(4, BoolValue)>> : geo \in GeoValues }

FullDocument ==
    <<Entry(1, StringValue(Source(<<2, 3, 1>>))), Entry(2, NumberValue(37)),
      Entry(3, ObjectValue(<<Entry("lat", NumberValue(11)), Entry("lng", NumberValue(11))>>)),
      Entry(4, BoolValue)>>

\* an index: its displayed attributes (None: all) and its document
Index(displayed, stored) == [displayed |-> displayed, stored |-> stored]

\* the matching words of the query: the word "bd" (and the number 37,
\* which has the same text in the model) matches on its 2 bytes
MatchingWords == [t \in TokenIds |-> IF t = 2 THEN 2 ELSE None]

\* perform_search is entered with a query on an index
SearchEntry(q, ix) ==
    /\ query = q /\ index = ix /\ matcher = MatchingWords
    /\ spc = "clamp" /\ search = search_new
    /\ displayed_ids = {} /\ to_retrieve_ids = {} /\ formatted_options = <<>>
    /\ document = <<>> /\ matches_info = <<>> /\ formatted = <<>>
    /\ hits = <<>> /\ result = <<>>
    /\ tokens = <<>> /\ highlight = FALSE /\ crop = None /\ pc = "idle"
    /\ start = 0 /\ scanned = 0 /\ infos = <<>> /\ pos = 0 /\ buffer = <<>>
    /\ crop_marker_before = FALSE /\ interval = <<>> /\ folded = 0 /\ out = <<>>
    /\ consulted = {}
    /\ ValueIdle

\* the sort lists of the queries on pagination and filter
QuerySorts ==
    { OptNone, OptSome(<<SortEntry("field", 0, 0)>>), OptSome(<<SortEntry("invalid", 0, 0)>>) }

\* queries that differ in offset, limit, filter and sort
QueryInputs ==
    { SearchQuery(offset, limit, OptNone, <<>>, DEFAULT_CROP_LENGTH, {}, FALSE, OptNone, sort) :
        offset \in {OptNone} \cup { OptSome(v) : v \in PageValues },
        limit \in PageValues, sort \in QuerySorts }
    \cup
    { SearchQuery(OptNone, DEFAULT_SEARCH_LIMIT, OptNone, <<>>, DEFAULT_CROP_LENGTH, {},
                  FALSE, OptSome(filter), OptNone) :
        filter \in FilterValues }

InitQuery ==
    \E q \in QueryInputs : SearchEntry(q, Index(OptNone, FullDocument))

SpecQuery == InitQuery /\ [][SearchNext]_vars

\* the entries of attributesToHighlight and of attributesToCrop
HighlightNames == {"title", "flag", "*", "ghost"}

CropEntries ==
    { <<"title">>, <<"title", ":", "2">>, <<"title", ":", "x">>, <<"title", ":">>,
      <<"*", ":", "1">>, <<"flag", ":", "1", "2">>, <<"ghost", ":", "title", ":", "2">> }

\* queries that differ in the attributes to retrieve, highlight and crop,
\* on an index that displays all its fields or all but `flag`
PlanInputs ==
    { SearchQuery(OptNone, DEFAULT_SEARCH_LIMIT, retrieve, to_crop, crop_length,
                  to_highlight, FALSE, OptNone, OptNone) :
        retrieve \in { OptNone, OptSome({"title", "flag", "ghost"}) },
        to_crop \in SeqsUpTo(CropEntries, MaxCropAttrs),
        crop_length \in { DEFAULT_CROP_LENGTH, 1 },
        to_highlight \in SubsetsUpTo(HighlightNames, MaxHighlightAttrs) }

InitPlan ==
    \E q \in PlanInputs, displayed \in { OptNone, OptSome({1, 2, 3}) } :
        SearchEntry(q, Index(displayed, FullDocument))

SpecPlan == InitPlan /\ [][SearchNext]_vars

\* queries that differ in the sort list, the attributes to retrieve and the
\* formatting asked for, on documents that differ in `_geo`
HitInputs ==
    { SearchQuery(OptNone, DEFAULT_SEARCH_LIMIT, retrieve, to_crop, DEFAULT_CROP_LENGTH,
                  to_highlight, matches, OptNone, sort) :
        retrieve \in { OptNone, OptSome({}), OptSome({"title", "_geo"}) },
        to_crop \in { <<>>, << <<"title", ":", "1">> >> },
        to_highlight \in { {}, {"title"}, {"*"} },
        matches \in BOOLEAN,
        sort \in {OptNone} \cup { OptSome(s) : s \in SeqsUpTo(SortEntries, MaxSort) } }

InitHit ==
    \E q \in HitInputs, stored \in StoredDocuments :
        SearchEntry(q, Index(OptNone, stored))

SpecHit == InitHit /\ [][SearchNext]_vars

\* the state of perform_search is well formed
SearchTypeOK ==
    /\ spc \in {"clamp", "filter", "sort", "execute", "fields", "highlight", "crop",
                "fill", "hits", "matches", "format", "geo", "push", "done", "error", "panic"}
    /\ DOMAIN formatted_options \subseteq FieldIds
    /\ to_retrieve_ids \subseteq displayed_ids
    /\ Len(hits) <= Len(search.documents_ids)

\* Formatter::format_string as a function agrees with its step-by-step run
FormatStringAgrees ==
    /\ pc # "panic"
    /\ pc = "done" => out = format_string(tokens, matcher, highlight, crop)

\* C11: perform_search passes to the index offset' = min(offset or 0, 1000)
\* and limit' = min(limit, 1000 - offset'); so offset' <= 1000,
\* limit' <= 1000 - min(offset, 1000), offset' + limit' <= 1000, and the
\* subtraction never goes below zero.
C11_PaginationClamp ==
    spc # "clamp" =>
        LET offset == IF query.offset.some THEN query.offset.v ELSE 0
        IN /\ search.offset = Min(offset, 1000)
           /\ 1000 - search.offset >= 0
           /\ search.limit = Min(query.limit, 1000 - search.offset)
           /\ search.offset <= 1000
           /\ search.limit <= 1000 - Min(offset, 1000)
           /\ search.offset + search.limit <= 1000

C11_Witness ==
    /\ spc = "done"
    /\ query.offset.some /\ query.offset.v = 1001 /\ query.limit = 1
    /\ search.offset = 1000 /\ search.limit = 0

\* the offending values of a filter array, in scan order
RECURSIVE FilterOffenders(_)
FilterOffenders(arr) ==
    IF arr = <<>> THEN <<>>
    ELSE LET NotString(v) == v.t # "String"
             here == IF Head(arr).t = "String" THEN <<>>
                     ELSE IF Head(arr).t = "Array"
                          THEN SelectSeq(Head(arr).items, NotString)
                          ELSE <<Head(arr)>>
         IN here \o FilterOffenders(Tail(arr))

\* a String, or an Array of Strings and of Arrays of Strings
FilterShapeOk(f) ==
    \/ f.t = "String"
    \/ f.t = "Array" /\ FilterOffenders(f.items) = <<>>

FirstOffender(f) == IF f.t = "Array" THEN Head(FilterOffenders(f.items)) ELSE f

\* C20: a filter is accepted by parse_filter exactly when it is a String or
\* an Array whose elements are Strings or Arrays of Strings; any other
\* filter yields InvalidExpression with the first offending value in scan
\* order, perform_search returns that error, runs no index search and
\* emits no hit.
C20_FilterShape ==
    (query.filter.some /\ spc \notin {"clamp", "filter"}) =>
        IF FilterShapeOk(query.filter.v)
        THEN spc = "error" => result.kind # "InvalidExpression"
        ELSE /\ spc = "error"
             /\ result.kind = "InvalidExpression"
             /\ result.value = FirstOffender(query.filter.v)
             /\ ~search.executed
             /\ hits = <<>> /\ result.hits = <<>>

C20_Witness ==
    /\ spc = "error" /\ query.filter.some
    /\ query.filter.v.t = "Array" /\ Len(query.filter.v.items) = 2
    /\ query.filter.v.items[1] =
           FilterValue("Array", <<FilterValue("String", <<>>), FilterValue("Number", <<>>)>>)
    /\ query.filter.v.items[2] = FilterValue("Null", <<>>)
    /\ result.kind = "InvalidExpression" /\ result.value = FilterValue("Number", <<>>)
    /\ ~search.executed

\* the displayed ids attributesToHighlight asks for
HighlightedIds ==
    IF "*" \in query.attributes_to_highlight THEN displayed_ids
    ELSE { id \in displayed_ids : FieldNames[id] \in query.attributes_to_highlight }

\* the plan the highlight step is to give
HighlightPlan == [id \in HighlightedIds |-> [highlight |-> TRUE, crop |-> None]]

\* C14: after add_highlight_to_formatted_options the plan maps exactly every
\* displayed id to {highlight: true, crop: None} when attributesToHighlight
\* holds "*", and exactly the named attributes that resolve to a displayed
\* id otherwise, whatever the order in which the set is iterated.
C14_HighlightPlan ==
    spc = "crop" => formatted_options = HighlightPlan

C14_Witness ==
    /\ spc = "crop"
    /\ query.attributes_to_highlight = {"flag", "*"}
    /\ displayed_ids = {1, 2, 3}
    /\ DOMAIN formatted_options = {1, 2, 3}
    /\ \A id \in {1, 2, 3} : formatted_options[id].highlight

\* the symbols of a crop entry after its last ":" (all of them without ":")
CropSuffix(e) ==
    LET colons == { i \in 1..Len(e) : e[i] = ":" }
        from == IF colons = {} THEN 1
                ELSE 1 + CHOOSE i \in colons : \A j \in colons : j <= i
    IN SubSeq(e, from, Len(e))

\* the symbols of a crop entry before its last ":" (all of them without ":")
CropName(e) ==
    IF \E i \in 1..Len(e) : e[i] = ":"
    THEN SubSeq(e, 1, Len(e) - Len(CropSuffix(e)) - 1)
    ELSE e

\* the length a crop entry asks for, L being the cropLength of the query
CropLength(e, L) ==
    LET n == CropSuffix(e)
    IN IF CropName(e) = e \/ n = <<>> \/ \E i \in 1..Len(n) : n[i] \notin {"1", "2"}
       THEN L
       ELSE IF Len(n) = 1 THEN DigitValue(n[1])
            ELSE 10 * DigitValue(n[1]) + DigitValue(n[2])

\* the entries of attributesToCrop that name the field, or "*"
CropsOf(id) ==
    { i \in 1..Len(query.attributes_to_crop) :
        CropName(query.attributes_to_crop[i]) \in {<<"*">>, <<FieldNames[id]>>} }

\* C15: after add_crop_to_formatted_options, a displayed field named by an
\* attributesToCrop entry (or by "*") has crop = Some(length), the length
\* being N for name:N with N an unsigned integer and the query's cropLength
\* otherwise, and the highlight flag the highlight step gave it (false for
\* an entry the crop step inserts); every other field is as the highlight
\* step left it.
C15_CropPlan ==
    spc = "fill" =>
        \A id \in FieldIds :
            IF id \in displayed_ids /\ CropsOf(id) # {}
            THEN LET last == CHOOSE i \in CropsOf(id) : \A j \in CropsOf(id) : j <= i
                 IN /\ id \in DOMAIN formatted_options
                    /\ formatted_options[id].highlight = (id \in HighlightedIds)
                    /\ formatted_options[id].crop =
                           CropLength(query.attributes_to_crop[last], query.crop_length)
            ELSE /\ id \in DOMAIN formatted_options <=> id \in HighlightedIds
                 /\ id \in DOMAIN formatted_options
                       => formatted_options[id] = [highlight |-> TRUE, crop |-> None]

C15_Witness ==
    /\ spc = "fill"
    /\ query.attributes_to_highlight = {"title"}
    /\ query.attributes_to_crop = << <<"title", ":", "x">>, <<"*", ":", "1">> >>
    /\ displayed_ids = {1, 2, 3}
    /\ DOMAIN formatted_options = {1, 2, 3}
    /\ formatted_options[1] = [highlight |-> TRUE, crop |-> 1]
    /\ formatted_options[2] = [highlight |-> FALSE, crop |-> 1]

\* C12: for every hit, formatted is empty exactly when the FormatPlan
\* (formatted_options) is empty.
C12_FormattedIffPlan ==
    spc = "geo" => (Len(formatted) = 0 <=> DOMAIN formatted_options = {})

\* the options the highlight and crop steps are to give a field they plan
PlannedOptions(id) ==
    [highlight |-> id \in HighlightedIds,
     crop |-> IF id \in displayed_ids /\ CropsOf(id) # {}
              THEN CropLength(
                       query.attributes_to_crop[
                           CHOOSE i \in CropsOf(id) : \A j \in CropsOf(id) : j <= i],
                       query.crop_length)
              ELSE None]

\* the ids the highlight and crop steps put in the plan
PlannedIds == HighlightedIds \cup { id \in displayed_ids : CropsOf(id) # {} }

\* the retrieved ids only the fill step puts in the plan
FillOnlyIds == IF PlannedIds = {} THEN {} ELSE to_retrieve_ids \ PlannedIds

\* the fill step: the planned entries are untouched, the others are
\* {highlight: false, crop: None}
FillStep ==
    /\ DOMAIN formatted_options = PlannedIds \cup FillOnlyIds
    /\ \A id \in PlannedIds : formatted_options[id] = PlannedOptions(id)
    /\ \A id \in FillOnlyIds : formatted_options[id] = [highlight |-> FALSE, crop |-> None]

\* a value with every Number leaf replaced by the String of its decimal text
RECURSIVE Stringified(_)
Stringified(v) ==
    IF v.t = "Number" THEN [v EXCEPT !.t = "String", !.s = number_to_string(v.n), !.n = 0]
    ELSE IF v.t = "Object"
    THEN [v EXCEPT !.items = [i \in 1..Len(v.items) |->
                                 [k |-> v.items[i].k, v |-> Stringified(v.items[i].v)]]]
    ELSE v

\* the value of a key of a map holding it
ValueOf(map, key) == map[CHOOSE i \in 1..Len(map) : map[i].k = key].v

\* C13 as stated: each fill-only field is in formatted with exactly the
\* value it has in document, whatever the type of its leaves.
C13_FillUnmodified ==
    spc = "geo" =>
        /\ FillStep
        /\ \A id \in FillOnlyIds :
              FieldNames[id] \in Keys(document) =>
                  /\ FieldNames[id] \in Keys(formatted)
                  /\ ValueOf(formatted, FieldNames[id]) = ValueOf(document, FieldNames[id])

\* C13, amended: when the plan is non-empty after the highlight and crop
\* steps, every retrieved id not in it is inserted as {highlight: false,
\* crop: None} and the entries already present are untouched; a fill-only
\* field is in formatted with the value it has in document, except that
\* each Number leaf has become the String of its decimal text.
C13_FillNumbersAsStrings ==
    spc = "geo" =>
        /\ FillStep
        /\ \A id \in FillOnlyIds :
              FieldNames[id] \in Keys(document) =>
                  /\ FieldNames[id] \in Keys(formatted)
                  /\ ValueOf(formatted, FieldNames[id])
                         = Stringified(ValueOf(document, FieldNames[id]))

C13_Witness ==
    /\ spc = "geo"
    /\ query.attributes_to_highlight = {"title"}
    /\ ~query.attributes_to_retrieve.some
    /\ FillOnlyIds = {2, 3, 4, 5, 6}
    /\ Keys(document) = {"title", "year", "_geo", "flag"}
    /\ ValueOf(document, "year") = NumberValue(37)
    /\ ValueOf(formatted, "year") = StringValue(<<"b", "d">>)
    /\ ValueOf(formatted, "flag") = ValueOf(document, "flag")

\* the names of the ids to retrieve
RetrievedNames == { FieldNames[id] : id \in to_retrieve_ids }

\* C16 as stated: no top-level key of the document of a hit lies outside
\* the names of to_retrieve_ids.
C16_DocumentKeys ==
    \A i \in 1..Len(hits) : Keys(hits[i].document) \subseteq RetrievedNames

\* C16, amended: every top-level key of the document of a hit is the name
\* of an id of to_retrieve_ids, or is `_geoDistance`, which is there only
\* for a query whose sort list has a geo point and a document whose `_geo`
\* is retrieved.
C16_DocumentKeysOrGeoDistance ==
    /\ spc \in {"matches", "format", "geo"} => Keys(document) \subseteq RetrievedNames
    /\ \A i \in 1..Len(hits) :
          /\ Keys(hits[i].document) \subseteq RetrievedNames \cup {"_geoDistance"}
          /\ "_geoDistance" \in Keys(hits[i].document) =>
                /\ query.sort.some
                /\ \E j \in 1..Len(query.sort.v) : query.sort.v[j].kind = "geo"
                /\ {"_geo"} \subseteq Keys(hits[i].document) \cap RetrievedNames

C16_Witness ==
    /\ spc = "done" /\ Len(hits) = 1
    /\ query.attributes_to_retrieve.some
    /\ to_retrieve_ids = {1, 3}
    /\ Keys(hits[1].document) = {"title", "_geo", "_geoDistance"}
    /\ Keys(index.stored) = {1, 2, 3, 4}

\* the document has an object `_geo` with numbers as lat and lng
NumericGeo(doc) ==
    \E i \in 1..Len(doc) :
        /\ doc[i].k = "_geo" /\ doc[i].v.t = "Object"
        /\ \A c \in {"lat", "lng"} :
              \E j \in 1..Len(doc[i].v.items) :
                  doc[i].v.items[j].k = c /\ doc[i].v.items[j].v.t = "Number"

\* the number at a coordinate of the `_geo` of a document with NumericGeo
Coordinate(doc, c) == ValueOf(ValueOf(doc, "_geo").items, c).n

\* the positions of the sort list the geo regex matches
GeoSorts ==
    IF query.sort.some
    THEN { i \in 1..Len(query.sort.v) : query.sort.v[i].kind \in {"geo", "geo_bad"} }
    ELSE {}

FirstGeoSort == query.sort.v[CHOOSE i \in GeoSorts : \A j \in GeoSorts : i <= j]

C18_Step ==
    (spc = "geo" /\ spc' = "push") =>
        IF GeoSorts = {} \/ ~NumericGeo(document)
        THEN document' = document
        ELSE LET d == Abs(FirstGeoSort.lat - Coordinate(document, "lat"))
                         + Abs(FirstGeoSort.lng - Coordinate(document, "lng"))
             IN /\ Keys(document') = Keys(document) \cup {"_geoDistance"}
                /\ ValueOf(document', "_geoDistance") = NumberValue(d)
                /\ \A i \in 1..Len(document) :
                      document[i].k # "_geoDistance" => document'[i] = document[i]
                /\ Len(document') =
                       Len(document) + (IF "_geoDistance" \in Keys(document) THEN 0 ELSE 1)

\* C18: insert_geo_distance uses the first entry of the sort list that
\* matches the geo regex and no later one; when no entry matches, or the
\* document has no `_geo` object with numeric lat and lng, the document is
\* unchanged; otherwise `_geoDistance` is set to the rounded distance and
\* every other field keeps its value and its place.
C18_FirstGeoSortOnly == [][C18_Step]_vars

C18_Witness ==
    /\ spc = "push"
    /\ query.sort.some
    /\ query.sort.v = <<SortEntry("geo", 12, 12), SortEntry("geo", 11, 11)>>
    /\ Len(document) = 5
    /\ document[5] = Entry("_geoDistance", NumberValue(2))

\* C19: when the first sort entry the geo regex matches has a capture that
\* is no float, the failure is an Internal error replacing the response;
\* insert_geo_distance never panics.
C19_GeoParseError ==
    /\ spc # "panic"
    /\ (GeoSorts # {} /\ FirstGeoSort.kind = "geo_bad" /\ Len(search.documents_ids) > 0
           /\ spc \notin {"clamp", "filter", "sort", "execute", "fields", "highlight",
                          "crop", "fill", "hits", "matches", "format", "geo"})
          => (spc = "error" /\ result.kind = "Internal")

\* --------------------------------------------------------------- C22
\* words of the source among the positions of the interval, in lo..hi
WindowWords(lo, hi) ==
    Cardinality({ i \in 1..Len(interval) :
                    /\ interval[i] \in lo..hi
                    /\ Lexicon[tokens[interval[i]]].kind = "word" })

\* the word budget after the match as the claim states it
AfterBudget(L, total_before) ==
    IF total_before > L \div 2
    THEN (IF L - (L \div 2) - 1 > 0 THEN L - (L \div 2) - 1 ELSE 0)
    ELSE (IF L - total_before - 1 > 0 THEN L - total_before - 1 ELSE 0)

\* C22: with crop = Some(L), L > 0, and a match M preceded by total_before
\* word tokens, min(total_before, L/2) word tokens are emitted before M and
\* min(words after M, after_budget) after it, where after_budget is
\* L - L/2 - 1 if total_before > L/2 and L - total_before - 1 otherwise,
\* saturating at 0; the window is one run of consecutive tokens around M, so
\* its separators are emitted and consume no budget.
C22_CropWindowSplit ==
    (pc \in {"fold", "done"} /\ Cropping /\ ~NoMatch) =>
        LET M == FirstMatch
            total_before == WordsIn(1, M - 1)
        IN /\ \E i \in 1..Len(interval) : interval[i] = M
           /\ Contiguous(interval)
           /\ WindowWords(1, M - 1) = Min(total_before, crop \div 2)
           /\ WindowWords(M + 1, Len(tokens))
                = Min(WordsIn(M + 1, Len(tokens)), AfterBudget(crop, total_before))

\* two words before the match and one after it with L = 2: one word is
\* kept before the match and none after it
C22_Witness ==
    /\ pc = "done" /\ crop = 2
    /\ tokens = <<1, 1, 2, 1>> /\ matcher[2] # None /\ matcher[1] = None
    /\ interval = <<2, 3>>
    /\ WindowWords(1, 2) = 1 /\ WindowWords(4, 4) = 0

\* --------------------------------------------------------------- C25
\* C25: every FieldId that is a key of the FormatPlan is a displayed field,
\* and every id of to_retrieve_ids is a displayed field, after each of the
\* highlight, crop and fill steps, also when the query names attributes
\* that are unknown or not displayed.
C25_PlanWithinDisplayed ==
    spc \notin {"clamp", "filter", "sort", "execute", "fields"} =>
        /\ DOMAIN formatted_options \subseteq displayed_ids
        /\ to_retrieve_ids \subseteq displayed_ids

\* `flag` is known and not displayed, `ghost` is unknown: both are named to
\* retrieve, to highlight and to crop, and neither enters the plan
C25_Witness ==
    /\ spc = "hits"
    /\ displayed_ids = {1, 2, 3}
    /\ query.attributes_to_retrieve = OptSome({"title", "flag", "ghost"})
    /\ query.attributes_to_highlight = {"flag", "ghost"}
    /\ query.attributes_to_crop = << <<"flag", ":", "1", "2">>, <<"*", ":", "1">> >>
    /\ to_retrieve_ids = {1}
    /\ DOMAIN formatted_options = {1, 2, 3}

\* --------------------------------------------------------------- C27
\* C27: when several attributesToCrop entries target the same displayed
\* field, by name or through "*", the plan keeps the crop length of the last
\* of them in list order: the crop step goes on after "*".
C27_LastCropEntryWins ==
    spc = "fill" =>
        \A id \in displayed_ids : \A i, j \in CropsOf(id) :
            (i < j /\ \A k \in CropsOf(id) : k <= j) =>
                /\ id \in DOMAIN formatted_options
                /\ formatted_options[id].crop =
                       CropLength(query.attributes_to_crop[j], query.crop_length)

\* a named entry after "*": `title` takes the length of the named entry and
\* the other displayed fields keep the length of "*"
C27_Witness ==
    /\ spc = "fill"
    /\ query.attributes_to_crop = << <<"*", ":", "1">>, <<"title", ":", "2">> >>
    /\ displayed_ids = {1, 2, 3}
    /\ formatted_options[1].crop = 2
    /\ formatted_options[2].crop = 1
    /\ formatted_options[3].crop = 1

\* --------------------------------------------------------------- C26
\* C26: matches_info and formatted of a hit are computed from the document
\* before insert_geo_distance changes it: `_geoDistance` is no key of
\* formatted and no key of matches_info, neither while the hit is built nor
\* in the hit, also when the document of the hit holds `_geoDistance` and
\* its value would match the query.
C26_GeoDistanceNotFormatted ==
    /\ spc \in {"geo", "push"} =>
          /\ "_geoDistance" \notin Keys(formatted)
          /\ matches_info.some => "_geoDistance" \notin Keys(matches_info.v)
    /\ \A i \in 1..Len(hits) :
          /\ "_geoDistance" \notin Keys(hits[i].formatted)
          /\ hits[i].matches_info.some =>
                "_geoDistance" \notin Keys(hits[i].matches_info.v)

\* a hit whose document got `_geoDistance`, a number whose text the query
\* matches as it matches `year` and `_geo`, with matches asked for and every field
\* highlighted
C26_Witness ==
    /\ spc = "done" /\ Len(hits) = 1
    /\ "_geoDistance" \in Keys(hits[1].document)
    /\ compute_value_matches(<<>>, ValueOf(hits[1].document, "_geoDistance"), matcher) # <<>>
    /\ query.attributes_to_highlight = {"*"}
    /\ hits[1].matches_info.some
    /\ Keys(hits[1].matches_info.v) = {"_geo", "title", "year"}
    /\ Keys(hits[1].formatted) = {"title", "year", "_geo", "flag"}

\* ------------------------------------------------------ nested documents
\* values of the field `doggo`: an object with a string and an array, an
\* object no word of which matches, an array of objects and strings, a
\* plain string
DoggoValues ==
    { ObjectValue(<<Entry("name", StringValue(Source(<<1, 3, 2, 3, 1>>))),
                    Entry("tags", ArrayValue(<<StringValue(Source(<<2, 3, 1>>)),
                                               NumberValue(37), BoolValue,
                                               ObjectValue(<<Entry("name",
                                                   StringValue(Source(<<1, 3, 2>>)))>>)>>))>>),
      ObjectValue(<<Entry("name", StringValue(Source(<<1, 3, 1>>))),
                    Entry("tags", ArrayValue(<<NullValue>>))>>),
      ArrayValue(<<ObjectValue(<<Entry("name", StringValue(Source(<<1, 3, 2, 3, 1>>)))>>),
                   StringValue(Source(<<1, 3, 2, 3, 1>>))>>),
      StringValue(Source(<<1, 3, 2, 3, 1>>)) }

\* the stored documents with the field `doggo`
NestedDocuments ==
    { <<Entry(1, StringValue(Source(<<2, 3, 1>>))), Entry(4, BoolValue), Entry(5, doggo)>> :
        doggo \in DoggoValues }

NestedHighlightNames == {"doggo", "doggo.name", "*"}

NestedCropEntries ==
    { <<"doggo", ":", "1">>, <<"doggo.name", ":", "2">>, <<"doggo.name", ":", "1">>,
      <<"title", ":", "1">> }

\* queries that name `doggo` and `doggo.name` to retrieve, highlight and crop
NestedInputs ==
    { SearchQuery(OptNone, DEFAULT_SEARCH_LIMIT, retrieve, to_crop, DEFAULT_CROP_LENGTH,
                  to_highlight, matches, OptNone, OptNone) :
        retrieve \in { OptNone, OptSome({"doggo.name"}), OptSome({"title", "doggo"}) },
        to_crop \in SeqsUpTo(NestedCropEntries, MaxCropAttrs),
        to_highlight \in SubsetsUpTo(NestedHighlightNames, MaxHighlightAttrs),
        matches \in BOOLEAN }

InitNested ==
    \E q \in NestedInputs, stored \in NestedDocuments :
        SearchEntry(q, Index(OptNone, stored))

SpecNested == InitNested /\ [][SearchNext]_vars

\* --------------------------------------------------------------- C21
\* the leaves of a value, through arrays and objects, in scan order
RECURSIVE LeavesOf(_)
LeavesOf(v) ==
    IF v.t \notin {"Array", "Object"} THEN <<v>>
    ELSE IF v.items = <<>> THEN <<>>
    ELSE LeavesOf(IF v.t = "Array" THEN Head(v.items) ELSE Head(v.items).v)
            \o LeavesOf([v EXCEPT !.items = Tail(v.items)])

\* the tokens of a string or number leaf, none for any other leaf
LeafTokens(v) ==
    IF v.t = "String" THEN analyze(v.s)
    ELSE IF v.t = "Number" THEN analyze(number_to_string(v.n))
    ELSE <<>>

\* the matched word tokens of a leaf from position i on, each with its byte
\* offset in the leaf
RECURSIVE LeafMatches(_, _)
LeafMatches(toks, i) ==
    IF i > Len(toks) THEN <<>>
    ELSE (IF Lexicon[toks[i]].kind = "word" /\ matcher[toks[i]] # None
          THEN <<[start |-> Len(Source(SubSeq(toks, 1, i - 1))), length |-> matcher[toks[i]]]>>
          ELSE <<>>)
            \o LeafMatches(toks, i + 1)

\* the matches of a sequence of leaves, leaf after leaf
RECURSIVE LeavesMatches(_)
LeavesMatches(leaves) ==
    IF leaves = <<>> THEN <<>>
    ELSE LeafMatches(LeafTokens(Head(leaves)), 1) \o LeavesMatches(Tail(leaves))

\* C21: compute_matches has an entry for a field of the document iff a word
\* token of some string or number leaf under the field, through arrays and
\* objects, is matched; the entries are in the order of their field names;
\* the list of a field holds the matches of all its leaves in scan order,
\* the offsets of each leaf counted from 0.
C21_ComputeMatches ==
    (spc \in {"format", "geo"} /\ matches_info.some) =>
        LET found == matches_info.v
        IN /\ \A key \in Keys(document) :
                 key \in Keys(found)
                    <=> \E i \in 1..Len(LeavesOf(ValueOf(document, key))) :
                           LeafMatches(LeafTokens(LeavesOf(ValueOf(document, key))[i]), 1) # <<>>
           /\ Keys(found) \subseteq Keys(document)
           /\ \A i, j \in 1..Len(found) : i < j => str_lt(found[i].k, found[j].k)
           /\ \A i \in 1..Len(found) :
                 found[i].v = LeavesMatches(LeavesOf(ValueOf(document, found[i].k)))

\* `doggo` is stored after `title` and enumerated before it; its list has
\* the matches of a string of the object, of a string and a number of the
\* array and of a string of an object of the array; `flag` has no entry
C21_Witness ==
    /\ spc = "geo" /\ matches_info.some
    /\ Keys(document) = {"title", "flag", "doggo"}
    /\ document[1].k = "title" /\ document[3].k = "doggo"
    /\ Len(matches_info.v) = 2
    /\ matches_info.v[1] = Entry("doggo", << [start |-> 4, length |-> 2],
                                             [start |-> 0, length |-> 2],
                                             [start |-> 0, length |-> 2],
                                             [start |-> 4, length |-> 2] >>)
    /\ matches_info.v[2] = Entry("title", << [start |-> 0, length |-> 2] >>)

\* --------------------------------------------------------------- C23
\* p is a prefix of the path k, name by name
IsPathPrefix(p, k) == Len(p) <= Len(k) /\ \A i \in 1..Len(p) : p[i] = k[i]

\* the entries of the plan that govern the leaf at path K
Governing(K) ==
    { id \in DOMAIN formatted_options :
        \/ IsPathPrefix(field_path(FieldNames[id]), K)
        \/ IsPathPrefix(K, field_path(FieldNames[id])) }

\* the options the claim gives the leaf at path K
GoverningOptions(K) ==
    LET cropping == { id \in Governing(K) : formatted_options[id].crop # None }
    IN [highlight |-> \E id \in Governing(K) : formatted_options[id].highlight,
        crop |-> IF cropping = {} THEN None
                 ELSE formatted_options[CHOOSE id \in cropping :
                                           \A other \in cropping : id <= other].crop]

\* a value with each of its leaves formatted with the options of its path;
\* the elements of an array have the path of the array
RECURSIVE GovernedValue(_, _)
GovernedValue(v, K) ==
    IF v.t = "Object"
    THEN ObjectValue([i \in 1..Len(v.items) |->
             Entry(v.items[i].k, GovernedValue(v.items[i].v, Append(K, v.items[i].k)))])
    ELSE IF v.t = "Array"
    THEN ArrayValue([i \in 1..Len(v.items) |-> GovernedValue(v.items[i], K)])
    ELSE format_value(v, matcher, GoverningOptions(K))

\* C23: format_fields formats the leaf at path K with the merge of the plan
\* entries whose field path is a dotted-path prefix of K or has K as a
\* dotted-path prefix: highlight iff one of them highlights, the crop of
\* the first of them, in ascending FieldId order, that has a crop, and
\* {highlight: false, crop: None} when there is none.
C23_NestedPlan ==
    spc = "geo" =>
        LET selected == select_values(document,
                            { FieldNames[id] : id \in DOMAIN formatted_options })
        IN formatted = [i \in 1..Len(selected) |->
                           Entry(selected[i].k,
                                 GovernedValue(selected[i].v, <<selected[i].k>>))]

\* `doggo` crops to 1 and `doggo.name` highlights and crops to 2: the leaf
\* doggo.name is highlighted and cropped to 1, the string of the array
\* doggo.tags is cropped to 1 and not highlighted
C23_Witness ==
    /\ spc = "geo"
    /\ DOMAIN formatted_options = 1..6 /\ "doggo" \in Keys(document)
    /\ formatted_options[5] = [highlight |-> FALSE, crop |-> 1]
    /\ formatted_options[6] = [highlight |-> TRUE, crop |-> 2]
    /\ Governing(<<"doggo", "name">>) = {5, 6}
    /\ Governing(<<"doggo", "tags">>) = {5}
    /\ ValueOf(document, "doggo").t = "Object"
    /\ ValueOf(ValueOf(formatted, "doggo").items, "name")
          = StringValue(<<"...", "<em>", "b", "d", "</em>", "...">>)
    /\ ValueOf(ValueOf(formatted, "doggo").items, "tags").items[1]
          = StringValue(<<"b", "d", "...">>)

\* ----------------------------------------------------------- format_value
MaxItems == 2       \* elements of an array handed to format_value

\* the leaves of the values handed to format_value
ValueLeaves ==
    { StringValue(Source(<<1, 3, 2, 3, 1>>)), StringValue(Source(<<2>>)),
      NumberValue(37), BoolValue, NullValue }

FlatArrays == { ArrayValue(items) : items \in SeqsUpTo(ValueLeaves, MaxItems) }

FlatObjects ==
    { ObjectValue(<<Entry("name", leaf), Entry("tags", array)>>) :
        leaf \in ValueLeaves, array \in FlatArrays }

\* leaves, arrays of leaves, objects holding a leaf and an array, arrays
\* holding an array and an object
ValueInputs ==
    ValueLeaves \cup FlatArrays \cup FlatObjects
        \cup { ArrayValue(<<array, object>>) :
                 array \in { a \in FlatArrays : Len(a.items) = 1 },
                 object \in { o \in FlatObjects : Len(o.items[2].v.items) = 1 } }

\* the matching words of the query, no matching word, and a matcher that
\* answers Some(1) for every token
ValueMatchers ==
    { MatchingWords, [t \in TokenIds |-> None], [t \in TokenIds |-> 1] }

\* format_value is called on a value with some options
InitValue ==
    /\ call_value \in ValueInputs
    /\ call_options \in { FormatOptions(hl, cr) : hl \in BOOLEAN, cr \in CropOptions }
    /\ matcher \in ValueMatchers
    /\ vpc = "call" /\ formatted_value = <<>>
    /\ SearchIdle
    /\ tokens = <<>> /\ highlight = FALSE /\ crop = None /\ pc = "idle"
    /\ start = 0 /\ scanned = 0 /\ infos = <<>> /\ pos = 0 /\ buffer = <<>>
    /\ crop_marker_before = FALSE /\ interval = <<>> /\ folded = 0 /\ out = <<>>
    /\ consulted = {}

\* lines 592-643: the call returns the formatted value
FormatValue ==
    /\ vpc = "call"
    /\ formatted_value' = format_value(call_value, matcher, call_options)
    /\ vpc' = "return"
    /\ UNCHANGED << call_value, call_options >>
    /\ UNCHANGED << inputs, pc, cvm_vars, fmt_vars, consulted, search_vars >>

ValueNext == FormatValue

SpecValue == InitValue /\ [][ValueNext]_vars

\* --------------------------------------------------------------- C24
\* b has the containers of a, with their lengths and keys
RECURSIVE SameShape(_, _)
SameShape(a, b) ==
    IF a.t = "Array"
    THEN /\ b.t = "Array" /\ Len(b.items) = Len(a.items)
         /\ \A i \in 1..Len(a.items) : SameShape(a.items[i], b.items[i])
    ELSE IF a.t = "Object"
    THEN /\ b.t = "Object" /\ Len(b.items) = Len(a.items)
         /\ \A i \in 1..Len(a.items) :
               /\ b.items[i].k = a.items[i].k
               /\ SameShape(a.items[i].v, b.items[i].v)
    ELSE b.t \notin {"Array", "Object"}

\* the formatted leaf b holds every byte of the text of the leaf a and no
\* crop marker, and one pair of tags for each matched word iff hl
LeafUncropped(a, b, hl) ==
    IF a.t \in {"String", "Number"}
    THEN LET text == IF a.t = "String" THEN a.s ELSE number_to_string(a.n)
             toks == analyze(text)
             matched == { i \in 1..Len(toks) :
                            Lexicon[toks[i]].kind = "word" /\ matcher[toks[i]] # None }
         IN /\ b.t = "String"
            /\ StripMarkup(b.s) = text
            /\ CountOf(b.s, MARK[1]) = 0
            /\ CountOf(b.s, PRE[1]) = (IF hl THEN Cardinality(matched) ELSE 0)
            /\ CountOf(b.s, POST[1]) = CountOf(b.s, PRE[1])
    ELSE b = a

\* C24: format_value on an Array or an Object formats every element or
\* value with crop None and the highlight of the caller, at every depth: a
\* string in a container is not cropped and gets no crop marker whatever
\* the crop of the call, it is highlighted iff the highlight of the call
\* is true, and the shape, lengths and keys of the container are kept.
C24_ContainerNeverCropped ==
    (vpc = "return" /\ call_value.t \in {"Array", "Object"}) =>
        /\ SameShape(call_value, formatted_value)
        /\ \A i \in 1..Len(LeavesOf(call_value)) :
              LeafUncropped(LeavesOf(call_value)[i], LeavesOf(formatted_value)[i],
                            call_options.highlight)

\* an array holding an array and an object, formatted with highlight and
\* crop Some(1): the string is whole and highlighted at both depths, while
\* the same call on the string itself crops it
C24_Witness ==
    /\ vpc = "return" /\ matcher = MatchingWords
    /\ call_options = FormatOptions(TRUE, 1)
    /\ call_value =
          ArrayValue(<<ArrayValue(<<StringValue(Source(<<1, 3, 2, 3, 1>>))>>),
                       ObjectValue(<<Entry("name", StringValue(Source(<<1, 3, 2, 3, 1>>))),
                                     Entry("tags", ArrayValue(<<NumberValue(37)>>))>>)>>)
    /\ formatted_value.items[1].items[1]
          = StringValue(<<"L", "c", "a", "s", "<em>", "b", "d", "</em>", "s", "L", "c", "a">>)
    /\ formatted_value.items[2].items[1].v = formatted_value.items[1].items[1]
    /\ formatted_value.items[2].items[2].v.items[1] = StringValue(<<"<em>", "b", "d", "</em>">>)
    /\ format_value(StringValue(Source(<<1, 3, 2, 3, 1>>)), matcher, call_options)
          = StringValue(<<"...", "<em>", "b", "d", "</em>", "...">>)

====
